---- MODULE Spec2Model ----
(***************************************************************************)
(* Model of the cron isolated agent turn of clawdis                        *)
(* (src/unnamed/part_000, cron/isolated-agent.ts): summary extraction,     *)
(* session resolution, delivery-target resolution, the lane-serialized     *)
(* agent invocation and the delivery of the agent's payloads.              *)
(*                                                                         *)
(* Strings are sequences of one-character strings, so that trim, slice and *)
(* normalisation are computed and not assumed.  An optional value          *)
(* (undefined | x) is the empty tuple << >> or the one-element tuple <<x>>.*)
(***************************************************************************)
EXTENDS Integers, Sequences, FiniteSets, TLC

VARIABLES
    cfg,          \* ClawdisConfig: the fields the cron run reads
    sessionStore, \* the session store file: sessionKey -> optional SessionEntry
    lanes,        \* command queue: lane name -> [queue, active]
    runs,         \* run id -> the frame of one runCronIsolatedAgentTurn call
    clock,        \* Date.now(), in ms since the model's epoch
    uuid,         \* number of session ids minted by crypto.randomUUID so far
    fn,           \* frame of a pure-function evaluation (summary, session)
    jobs,         \* cron store: job id -> job record with its state
    inFlight,     \* scheduler memory: job id -> number of its runs in flight
    runLog,       \* the entries the last step appended to the run log
    gateway       \* the scheduler's process: "up" or "down"

vars ==
    <<cfg, sessionStore, lanes, runs, clock, uuid, fn,
      jobs, inFlight, runLog, gateway>>

\* the state of the cron scheduler
cronVars == <<jobs, inFlight, runLog, gateway>>

(***************************************************************************)
(* Optional values and strings                                             *)
(***************************************************************************)
None == << >>
Unused == << >>
Some(x) == <<x>>
IsSome(o) == o /= << >>
Get(o) == o[1]

Rep(c, n) == [i \in 1..n |-> c]

WhiteSpace == {" ", "\t", "\n"}

RECURSIVE TrimStart(_)
TrimStart(s) ==
    IF s /= << >> /\ Head(s) \in WhiteSpace THEN TrimStart(Tail(s)) ELSE s

RECURSIVE TrimEnd(_)
TrimEnd(s) ==
    IF s /= << >> /\ s[Len(s)] \in WhiteSpace
    THEN TrimEnd(SubSeq(s, 1, Len(s) - 1))
    ELSE s

\* String.prototype.trim
Trim(s) == TrimEnd(TrimStart(s))

\* String.prototype.slice(0, n) for n >= 0
Slice0(s, n) == SubSeq(s, 1, IF Len(s) < n THEN Len(s) ELSE n)

(***************************************************************************)
(* Summary of the agent's output (part_000 lines 44-59, 268-271)           *)
(***************************************************************************)
\* const limit = 2000
limit == 2000

\* the one code unit U+2026 appended to a cut summary
Ellipsis == "..."

\* text ?? ""
OrEmpty(o) == IF IsSome(o) THEN Get(o) ELSE << >>

PickSummaryFromOutput_NoCut(text) ==
    LET clean == Trim(OrEmpty(text))
    IN  IF clean = << >> THEN None
        ELSE Some(IF Len(clean) >= limit
                  THEN Append(Slice0(clean, limit - 1), Ellipsis)
                  ELSE clean)

PickSummaryFromOutput(text) ==
    LET clean == Trim(OrEmpty(text))
    IN  IF clean = << >> THEN None
        ELSE Some(IF Len(clean) > limit
                  THEN Append(Slice0(clean, limit), Ellipsis)
                  ELSE clean)

\* for (let i = payloads.length - 1; i >= 0; i--) ...
RECURSIVE ScanPayloads(_, _)
ScanPayloads(payloads, i) ==
    IF i < 1 THEN None
    ELSE LET summary == PickSummaryFromOutput(payloads[i].text)
         IN  IF IsSome(summary) THEN summary ELSE ScanPayloads(payloads, i - 1)

RECURSIVE ScanPayloadsForward(_, _)
ScanPayloadsForward(payloads, i) ==
    IF i > Len(payloads) THEN None
    ELSE LET summary == PickSummaryFromOutput(payloads[i].text)
         IN  IF IsSome(summary) THEN summary
             ELSE ScanPayloadsForward(payloads, i + 1)

PickSummaryFromPayloads_FirstText(payloads) == ScanPayloadsForward(payloads, 1)

PickSummaryFromPayloads(payloads) == ScanPayloads(payloads, Len(payloads))

\* payloads[0]?.text ?? ""
FirstText(payloads) ==
    IF payloads = << >> THEN << >> ELSE OrEmpty(payloads[1].text)

\* pickSummaryFromPayloads(payloads) ?? pickSummaryFromOutput(firstText)
RunSummary(payloads) ==
    LET s == PickSummaryFromPayloads(payloads)
    IN  IF IsSome(s) THEN s ELSE PickSummaryFromOutput(Some(FirstText(payloads)))

(***************************************************************************)
(* Session resolution (part_000 lines 122-152)                             *)
(***************************************************************************)
\* DEFAULT_IDLE_MINUTES of config/sessions.ts
DEFAULT_IDLE_MINUTES == 10080

Max(a, b) == IF a > b THEN a ELSE b

\* Math.max(sessionCfg?.idleMinutes ?? DEFAULT_IDLE_MINUTES, 1) * 60_000
IdleMs(c) ==
    Max(IF IsSome(c.idleMinutes) THEN Get(c.idleMinutes)
        ELSE DEFAULT_IDLE_MINUTES, 1) * 60000

\* entry && params.nowMs - entry.updatedAt <= idleMs
IsFresh_Strict(c, entry, nowMs) ==
    IsSome(entry) /\ nowMs - Get(entry).updatedAt < IdleMs(c)

IsFresh(c, entry, nowMs) ==
    IsSome(entry) /\ nowMs - Get(entry).updatedAt <= IdleMs(c)

\* entry?.field
Field(entry, f) == IF IsSome(entry) THEN Get(entry)[f] ELSE None

\* Boolean(entry.systemSent)
Truthy(o) == IsSome(o) /\ Get(o) = TRUE

\* crypto.randomUUID(): the n-th identifier minted, distinct from all others
RandomUUID(n) == <<"uuid", n>>

ResolveCronSession_ResetsOnNewId(c, store, sessionKey, nowMs, newId) ==
    LET entry == store[sessionKey]
        fresh == IsFresh(c, entry, nowMs)
        kept == IF fresh THEN entry ELSE None
    IN  [store |-> store,
         sessionEntry |->
            [sessionId |-> IF fresh THEN Get(entry).sessionId ELSE newId,
             updatedAt |-> nowMs,
             systemSent |-> Some(fresh /\ Truthy(Get(entry).systemSent)),
             thinkingLevel |-> Field(kept, "thinkingLevel"),
             verboseLevel |-> Field(kept, "verboseLevel"),
             model |-> Field(kept, "model"),
             contextTokens |-> Field(kept, "contextTokens"),
             lastChannel |-> Field(kept, "lastChannel"),
             lastTo |-> Field(kept, "lastTo"),
             syncing |-> Field(kept, "syncing")],
         systemSent |-> fresh /\ Truthy(Get(entry).systemSent),
         isNewSession |-> ~fresh]

ResolveCronSession_KeepsUpdatedAt(c, store, sessionKey, nowMs, newId) ==
    LET entry == store[sessionKey]
        fresh == IsFresh(c, entry, nowMs)
    IN  [store |-> store,
         sessionEntry |->
            [sessionId |-> IF fresh THEN Get(entry).sessionId ELSE newId,
             updatedAt |-> IF fresh THEN Get(entry).updatedAt ELSE nowMs,
             systemSent |-> Some(fresh /\ Truthy(Get(entry).systemSent)),
             thinkingLevel |-> Field(entry, "thinkingLevel"),
             verboseLevel |-> Field(entry, "verboseLevel"),
             model |-> Field(entry, "model"),
             contextTokens |-> Field(entry, "contextTokens"),
             lastChannel |-> Field(entry, "lastChannel"),
             lastTo |-> Field(entry, "lastTo"),
             syncing |-> Field(entry, "syncing")],
         systemSent |-> fresh /\ Truthy(Get(entry).systemSent),
         isNewSession |-> ~fresh]

ResolveCronSession(c, store, sessionKey, nowMs, newId) ==
    LET entry == store[sessionKey]
        fresh == IsFresh(c, entry, nowMs)
        sessionId == IF fresh THEN Get(entry).sessionId ELSE newId
        systemSent == IF fresh THEN Truthy(Get(entry).systemSent) ELSE FALSE
    IN  [store |-> store,
         sessionEntry |->
            [sessionId |-> sessionId,
             updatedAt |-> nowMs,
             systemSent |-> Some(systemSent),
             thinkingLevel |-> Field(entry, "thinkingLevel"),
             verboseLevel |-> Field(entry, "verboseLevel"),
             model |-> Field(entry, "model"),
             contextTokens |-> Field(entry, "contextTokens"),
             lastChannel |-> Field(entry, "lastChannel"),
             lastTo |-> Field(entry, "lastTo"),
             syncing |-> Field(entry, "syncing")],
         systemSent |-> systemSent,
         isNewSession |-> ~fresh]

\* A SessionEntry as another writer left it in the store.
StoredEntry(id, at, sent, channel, to, tuned) ==
    [sessionId |-> <<"stored", id>>,
     updatedAt |-> at,
     systemSent |-> sent,
     thinkingLevel |-> IF tuned THEN Some("high") ELSE None,
     verboseLevel |-> IF tuned THEN Some("on") ELSE None,
     model |-> IF tuned THEN Some("claude-opus-4-5") ELSE None,
     contextTokens |-> IF tuned THEN Some(200000) ELSE None,
     lastChannel |-> channel,
     lastTo |-> to,
     syncing |-> None]

(***************************************************************************)
(* Delivery target resolution (part_000 lines 61-120)                      *)
(***************************************************************************)
Digits == {"0", "1", "2", "3", "4", "5", "6", "7", "8", "9"}

RECURSIVE KeepPhoneChars(_)
KeepPhoneChars(s) ==
    IF s = << >> THEN << >>
    ELSE IF Head(s) \in Digits \cup {"+"}
         THEN <<Head(s)>> \o KeepPhoneChars(Tail(s))
         ELSE KeepPhoneChars(Tail(s))

\* normalizeE164 of utils.ts: drop everything but digits and "+", lead with "+"
NormalizeE164(number) ==
    LET digits == KeepPhoneChars(number)
    IN  IF digits /= << >> /\ Head(digits) = "+" THEN digits
        ELSE <<"+">> \o digits

\* Array.prototype.includes
Includes(seq, x) == \E i \in 1..Len(seq) : seq[i] = x

\* rawAllow.map((val) => normalizeE164(val)).filter((val) => val.length > 1)
RECURSIVE NormalizedAllowFrom(_)
NormalizedAllowFrom(rawAllow) ==
    IF rawAllow = << >> THEN << >>
    ELSE LET val == NormalizeE164(Head(rawAllow))
         IN  IF Len(val) > 1
             THEN <<val>> \o NormalizedAllowFrom(Tail(rawAllow))
             ELSE NormalizedAllowFrom(Tail(rawAllow))

Wildcard == <<"*">>

\* (sessionCfg?.mainKey ?? "main").trim() || "main", mainKey left unset
MainKey == <<"main", 0>>

KnownChannels == {"whatsapp", "telegram", "discord"}

\* typeof jobPayload.channel === "string" ? jobPayload.channel : "last"
RequestedChannel(jobPayload) ==
    IF IsSome(jobPayload.channel) THEN Get(jobPayload.channel) ELSE "last"

\* typeof jobPayload.to === "string" && jobPayload.to.trim() ? ... : undefined
ExplicitTo(jobPayload) ==
    IF IsSome(jobPayload.to) /\ Trim(Get(jobPayload.to)) /= << >>
    THEN Some(Trim(Get(jobPayload.to)))
    ELSE None

LastChannel_KeepsWebchat(main) ==
    IF IsSome(main) /\ IsSome(Get(main).lastChannel)
    THEN Get(main).lastChannel
    ELSE None

\* main?.lastChannel && main.lastChannel !== "webchat" ? main.lastChannel : undefined
LastChannel(main) ==
    IF IsSome(main) /\ IsSome(Get(main).lastChannel)
       /\ Get(Get(main).lastChannel) /= "webchat"
    THEN Get(main).lastChannel
    ELSE None

\* typeof main?.lastTo === "string" ? main.lastTo.trim() : ""
LastTo(main) ==
    IF IsSome(main) /\ IsSome(Get(main).lastTo)
    THEN Trim(Get(Get(main).lastTo))
    ELSE << >>

ResolveChannel(jobPayload, main) ==
    IF RequestedChannel(jobPayload) \in KnownChannels
    THEN RequestedChannel(jobPayload)
    ELSE IF IsSome(LastChannel(main)) THEN Get(LastChannel(main))
         ELSE "whatsapp"

ResolveTo_LastFirst(jobPayload, main) ==
    IF LastTo(main) /= << >> THEN Some(LastTo(main)) ELSE ExplicitTo(jobPayload)

ResolveTo(jobPayload, main) ==
    IF IsSome(ExplicitTo(jobPayload)) THEN ExplicitTo(jobPayload)
    ELSE IF LastTo(main) /= << >> THEN Some(LastTo(main)) ELSE None

SanitizedWhatsappTo_NoWildcard(c, channel, to) ==
    LET rawAllow == IF IsSome(c.allowFrom) THEN Get(c.allowFrom) ELSE << >>
        allowFrom == NormalizedAllowFrom(rawAllow)
    IN  IF channel /= "whatsapp" THEN to
        ELSE IF Len(allowFrom) = 0 THEN to
        ELSE IF ~IsSome(to) THEN Some(allowFrom[1])
        ELSE IF Includes(allowFrom, NormalizeE164(Get(to)))
             THEN Some(NormalizeE164(Get(to)))
             ELSE Some(allowFrom[1])

SanitizedWhatsappTo_PassThrough(c, channel, to) == to

SanitizedWhatsappTo(c, channel, to) ==
    LET rawAllow == IF IsSome(c.allowFrom) THEN Get(c.allowFrom) ELSE << >>
        allowFrom == NormalizedAllowFrom(rawAllow)
    IN  IF channel /= "whatsapp" THEN to
        ELSE IF Includes(rawAllow, Wildcard) THEN to
        ELSE IF Len(allowFrom) = 0 THEN to
        ELSE IF ~IsSome(to) THEN Some(allowFrom[1])
        ELSE IF Includes(allowFrom, NormalizeE164(Get(to)))
             THEN Some(NormalizeE164(Get(to)))
             ELSE Some(allowFrom[1])

ResolveDeliveryTarget(c, store, jobPayload) ==
    LET main == store[MainKey]
        channel == ResolveChannel(jobPayload, main)
        to == ResolveTo(jobPayload, main)
    IN  [channel |-> channel,
         to |-> IF channel = "whatsapp"
                THEN SanitizedWhatsappTo(c, channel, to)
                ELSE to]

(***************************************************************************)
(* Command queue (process/command-queue.ts): one FIFO queue per lane, at   *)
(* most MaxConcurrent tasks of a lane executing.                           *)
(***************************************************************************)
MaxConcurrent == 1

EmptyLane == [queue |-> << >>, active |-> 0]

\* start queued tasks while the lane has a free slot
RECURSIVE Pump(_, _)
Pump(st, started) ==
    IF st.active < MaxConcurrent /\ st.queue /= << >>
    THEN Pump([queue |-> Tail(st.queue), active |-> st.active + 1],
              Append(started, Head(st.queue)))
    ELSE [lane |-> st, started |-> started]

EnqueueCommandInLane_Lifo(st, r) ==
    Pump([st EXCEPT !.queue = <<r>> \o @], << >>)

\* enqueueCommandInLane(lane, task): queue the task, then drain the lane
EnqueueCommandInLane(st, r) ==
    Pump([st EXCEPT !.queue = Append(@, r)], << >>)

\* a task of the lane settled: free its slot, then drain the lane
TaskSettled(st) ==
    Pump([st EXCEPT !.active = @ - 1], << >>)

(***************************************************************************)
(* runCronIsolatedAgentTurn (part_000 lines 154-398)                       *)
(***************************************************************************)
Lit(s) == <<s>>

Cron == <<"c", "r", "o", "n">>

ResolveLane_NoTrim(lane) ==
    IF IsSome(lane) THEN Get(lane) ELSE Cron

\* params.lane?.trim() || "cron"
ResolveLane(lane) ==
    IF IsSome(lane) /\ Trim(Get(lane)) /= << >> THEN Trim(Get(lane)) ELSE Cron

Delivery_Always(job) == job.kind = "agentTurn"

\* payload.kind === "agentTurn" && payload.deliver === true
Delivery(job) == job.kind = "agentTurn" /\ job.deliver = Some(TRUE)

\* payload.kind === "agentTurn" && payload.bestEffortDeliver === true
BestEffortDeliver(job) ==
    job.kind = "agentTurn" /\ job.bestEffortDeliver = Some(TRUE)

\* payload.mediaUrls ?? (payload.mediaUrl ? [payload.mediaUrl] : [])
MediaList(payload) ==
    IF IsSome(payload.mediaUrls) THEN Get(payload.mediaUrls)
    ELSE IF IsSome(payload.mediaUrl) THEN <<Get(payload.mediaUrl)>>
    ELSE << >>

SendCall(to, text, mediaUrl) == [to |-> to, text |-> text, mediaUrl |-> mediaUrl]

WhatsAppCalls_ExtrasFirst(to, payload) ==
    LET mediaList == MediaList(payload)
    IN  (IF mediaList = << >> THEN << >>
         ELSE [i \in 1..Len(Tail(mediaList)) |->
                 SendCall(to, << >>, Some(Tail(mediaList)[i]))])
        \o <<SendCall(to, OrEmpty(payload.text),
                      IF mediaList = << >> THEN None ELSE Some(mediaList[1]))>>

\* the WhatsApp calls of one payload: text with the first media, then the rest
WhatsAppCalls(to, payload) ==
    LET mediaList == MediaList(payload)
    IN  <<SendCall(to, OrEmpty(payload.text),
                   IF mediaList = << >> THEN None ELSE Some(mediaList[1]))>>
        \o (IF mediaList = << >> THEN << >>
            ELSE [i \in 1..Len(Tail(mediaList)) |->
                    SendCall(to, << >>, Some(Tail(mediaList)[i]))])

\* chunkText(text, 4000) of auto-reply/chunk.ts, for texts below the limit
ChunkText(text) == IF text = << >> THEN << >> ELSE <<text>>

\* caption on the first media only
CaptionedCalls(to, payload) ==
    LET mediaList == MediaList(payload)
    IN  [i \in 1..Len(mediaList) |->
           SendCall(to, IF i = 1 THEN OrEmpty(payload.text) ELSE << >>,
                    Some(mediaList[i]))]

TelegramCalls(to, payload) ==
    IF MediaList(payload) = << >>
    THEN LET chunks == ChunkText(OrEmpty(payload.text))
         IN  [i \in 1..Len(chunks) |-> SendCall(to, chunks[i], None)]
    ELSE CaptionedCalls(to, payload)

DiscordCalls(to, payload) ==
    IF MediaList(payload) = << >>
    THEN <<SendCall(to, OrEmpty(payload.text), None)>>
    ELSE CaptionedCalls(to, payload)

PayloadCalls(channel, to, payload) ==
    IF channel = "whatsapp" THEN WhatsAppCalls(NormalizeE164(to), payload)
    ELSE IF channel = "telegram" THEN TelegramCalls(to, payload)
    ELSE IF channel = "discord" THEN DiscordCalls(to, payload)
    ELSE << >>

\* the send calls of the delivery loops, in the order the loops make them
RECURSIVE SendPlan(_, _, _)
SendPlan(channel, to, payloads) ==
    IF payloads = << >> THEN << >>
    ELSE PayloadCalls(channel, to, Head(payloads))
         \o SendPlan(channel, to, Tail(payloads))

Result(status, summary, error) ==
    [status |-> status, summary |-> summary, error |-> error]

NoRecipientError(channel) ==
    IF channel = "whatsapp"
    THEN Lit("Cron delivery to WhatsApp requires a recipient.")
    ELSE IF channel = "telegram"
    THEN Lit("Cron delivery to Telegram requires a chatId.")
    ELSE Lit("Cron delivery to Discord requires --channel discord and --to <channelId|user:ID>")

SkippedSummary(channel) ==
    IF channel = "whatsapp"
    THEN Lit("Delivery skipped (no WhatsApp recipient).")
    ELSE IF channel = "telegram"
    THEN Lit("Delivery skipped (no Telegram chatId).")
    ELSE Lit("Delivery skipped (no Discord destination).")

\* if (!resolvedDelivery.to) { if (!bestEffortDeliver) return error; return skipped }
NoRecipientResult_AlwaysSkips(job, channel, summary) ==
    Result("skipped", Some(SkippedSummary(channel)), None)

NoRecipientResult_NeverSkips(job, channel, summary) ==
    Result("error", summary, Some(NoRecipientError(channel)))

NoRecipientResult_DropsSummary(job, channel, summary) ==
    IF ~BestEffortDeliver(job)
    THEN Result("error", None, Some(NoRecipientError(channel)))
    ELSE Result("skipped", Some(SkippedSummary(channel)), None)

NoRecipientResult(job, channel, summary) ==
    IF ~BestEffortDeliver(job)
    THEN Result("error", summary, Some(NoRecipientError(channel)))
    ELSE Result("skipped", Some(SkippedSummary(channel)), None)

\* catch (err) { if (!bestEffortDeliver) return error; return ok }
SendFailedResult_NeverFails(job, summary, err) == Result("ok", summary, None)

SendFailedResult(job, summary, err) ==
    IF ~BestEffortDeliver(job)
    THEN Result("error", summary, Some(err))
    ELSE Result("ok", summary, None)

\* catch (err) { return { status: "error", error: String(err) } }
AgentFailedResult_Ok(err) == Result("ok", None, None)

AgentFailedResult(err) == Result("error", None, Some(err))

NumRuns == 2
RunIds == 1..NumRuns

MaxPayloads == 3

Payload(text, mediaUrl, mediaUrls) ==
    [text |-> text, mediaUrl |-> mediaUrl, mediaUrls |-> mediaUrls]

TextFirst == <<"f", "i", "r", "s", "t">>
TextBlank == <<" ">>
TextLast == <<" ", "l", "a", "s", "t", " ">>

PayloadItems ==
    {Payload(Some(TextFirst), None, None),
     Payload(Some(TextBlank), Some("u3"), None),
     Payload(Some(TextLast), None, Some(<<"u1", "u2">>))}

\* every payload list of at most n payloads
PayloadLists(n) == UNION {[1..k -> PayloadItems] : k \in 0..n}

\* what the configured reply command (cfg.inbound.reply.command) can answer:
\* "agent" any payload list within the bound, "echo" its one text
\* and "digest" lists of notes of which some are blank or have no text
DigestItems ==
    {Payload(Some(TextFirst), None, None),
     Payload(Some(TextBlank), None, None),
     Payload(None, None, None),
     Payload(Some(TextLast), None, Some(<<"u1">>))}

CommandOutputs(command) ==
    IF command = "agent" THEN PayloadLists(MaxPayloads)
    ELSE IF command = "digest"
    THEN UNION {[1..k -> DigestItems] : k \in 0..MaxPayloads}
    ELSE {<<Payload(Some(TextFirst), None, None)>>}

\* how the reply command can fail: it exits with an error, or "agent" runs
\* into the timeout
CommandErrors(command) ==
    {Lit("Error: command failed")}
    \cup (IF command = "agent" THEN {Lit("Error: command timed out")} ELSE {})


\* sessionKey of the isolated job a run belongs to ("cron:<job id>")
CronKey(j) == <<"cron:job", j>>
SessionKeys == {MainKey} \cup {CronKey(j) : j \in RunIds}

NoFrame ==
    [pc |-> "off", job |-> None, lane |-> None, sessionKey |-> MainKey,
     store |-> None, session |-> None, resolvedDelivery |-> None,
     laneName |-> None, agent |-> "none", payloads |-> << >>,
     summary |-> None,
     cursor |-> 0, sent |-> << >>, result |-> None]

\* the frame of a call runCronIsolatedAgentTurn({cfg, deps, job, sessionKey, lane})
CallFrame(job, sessionKey, lane) ==
    [NoFrame EXCEPT !.pc = "init", !.job = Some(job),
                    !.sessionKey = sessionKey, !.lane = lane]

JobOf(r) == Get(runs[r].job)

\* the instants Date.now() may return at the start of a run: no time has
\* passed since the last run started, or more than the idle window has
MaxAdvances == 1
NowChoices ==
    {clock} \cup {clock + IdleMs(cfg) + 1 :
                     x \in {y \in {clock} : y < MaxAdvances * (IdleMs(cfg) + 1)}}

\* assertCommandReplyConfig(cfg) returns: reply is configured with mode
\* "command" and a command that is not empty (lines 29-42)
AssertCommandReplyConfig(c) == c.mode = "command" /\ c.command /= ""

\* line 162 throws: the promise of the call rejects
ConfigError(r) ==
    /\ runs[r].pc = "init"
    /\ ~AssertCommandReplyConfig(cfg)
    /\ runs' = [runs EXCEPT ![r].pc = "threw"]
    /\ UNCHANGED <<cfg, sessionStore, lanes, clock, uuid, fn>>
    /\ UNCHANGED cronVars

\* lines 162-245, up to the call of saveSessionStore: resolve the session and
\* the delivery target from the store as loaded now, set the entry in the
\* loaded store (systemSent = true when the system text goes out once and this
\* is the first turn) and hand the whole store to saveSessionStore.
Start(r) ==
    /\ runs[r].pc = "init"
    /\ AssertCommandReplyConfig(cfg)
    /\ \E now \in NowChoices :
        LET cronSession ==
                ResolveCronSession(cfg, sessionStore, runs[r].sessionKey, now,
                                   RandomUUID(uuid + 1))
            sendSystemOnce == cfg.sendSystemOnce = TRUE
            isFirstTurnInSession ==
                cronSession.isNewSession \/ ~cronSession.systemSent
            entry ==
                IF sendSystemOnce /\ isFirstTurnInSession
                THEN [cronSession.sessionEntry EXCEPT !.systemSent = Some(TRUE)]
                ELSE cronSession.sessionEntry
        IN  /\ runs' = [runs EXCEPT
                  ![r].pc = "saving",
                  ![r].session =
                      Some([sessionId |-> entry.sessionId,
                            isNewSession |-> cronSession.isNewSession,
                            isFirstTurnInSession |-> isFirstTurnInSession,
                            systemSent |-> Get(entry.systemSent)]),
                  ![r].resolvedDelivery =
                      Some(ResolveDeliveryTarget(cfg, sessionStore, JobOf(r))),
                  ![r].store =
                      Some([cronSession.store EXCEPT
                               ![runs[r].sessionKey] = Some(entry)])]
            /\ uuid' = IF cronSession.isNewSession THEN uuid + 1 ELSE uuid
            /\ clock' = now
    /\ UNCHANGED <<cfg, sessionStore, lanes, fn>>
    /\ UNCHANGED cronVars

\* await saveSessionStore(storePath, store) settles: the file now holds the
\* store this run loaded, with its entry set (lines 241, 244); line 247.
SaveDone(r) ==
    /\ runs[r].pc = "saving"
    /\ sessionStore' = Get(runs[r].store)
    /\ runs' = [runs EXCEPT ![r].pc = "saved", ![r].store = None,
                            ![r].laneName = Some(ResolveLane(runs[r].lane))]
    /\ UNCHANGED <<cfg, lanes, clock, uuid, fn>>
    /\ UNCHANGED cronVars

\* runCommandReply hands the agent invocation to enqueue (line 261): it runs at
\* once when the lane is free and waits in the lane's queue otherwise.
Enqueue(r) ==
    /\ runs[r].pc = "saved"
    /\ LET lane == Get(runs[r].laneName)
           q == EnqueueCommandInLane(lanes[lane], r)
       IN  /\ lanes' = [lanes EXCEPT ![lane] = q.lane]
           /\ runs' = [runs EXCEPT
                 ![r].pc = IF Includes(q.started, r) THEN "running" ELSE "queued"]
    /\ UNCHANGED <<cfg, sessionStore, clock, uuid, fn>>
    /\ UNCHANGED cronVars

\* lines 268-397 up to the first send call or the return
AfterAgent(f, payloads) ==
    LET job == Get(f.job)
        target == Get(f.resolvedDelivery)
        summary == RunSummary(payloads)
        done(res) == [f EXCEPT !.pc = "done", !.agent = "resolved",
                               !.payloads = payloads, !.summary = summary,
                               !.result = Some(res)]
    IN  IF ~Delivery(job) \/ target.channel \notin KnownChannels
        THEN done(Result("ok", summary, None))
        ELSE IF ~IsSome(target.to)
        THEN done(NoRecipientResult(job, target.channel, summary))
        ELSE IF SendPlan(target.channel, Get(target.to), payloads) = << >>
        THEN done(Result("ok", summary, None))
        ELSE [f EXCEPT !.pc = "sending", !.agent = "resolved",
                       !.payloads = payloads, !.summary = summary,
                       !.cursor = 1]

\* the frames once the task of run r has settled: the lane starts its next task
Settle(r, frame) ==
    LET lane == Get(runs[r].laneName)
        q == TaskSettled(lanes[lane])
    IN  /\ lanes' = [lanes EXCEPT ![lane] = q.lane]
        /\ runs' = [x \in RunIds |->
              IF x = r THEN frame
              ELSE IF Includes(q.started, x) THEN [runs[x] EXCEPT !.pc = "running"]
              ELSE runs[x]]

\* the agent invocation resolves with payloads (runResult.payloads ?? [])
AgentResolve(r) ==
    /\ runs[r].pc = "running"
    /\ \E payloads \in CommandOutputs(cfg.command) :
          Settle(r, AfterAgent(runs[r], payloads))
    /\ UNCHANGED <<cfg, sessionStore, clock, uuid, fn>>
    /\ UNCHANGED cronVars

\* the agent invocation rejects (failure or timeout): lines 264-266
AgentReject(r) ==
    /\ runs[r].pc = "running"
    /\ \E err \in CommandErrors(cfg.command) :
          Settle(r, [runs[r] EXCEPT !.pc = "done", !.agent = "rejected",
                                    !.result = Some(AgentFailedResult(err))])
    /\ UNCHANGED <<cfg, sessionStore, clock, uuid, fn>>
    /\ UNCHANGED cronVars

SendError == Lit("Error: send failed")

CurrentPlan(f) ==
    SendPlan(Get(f.resolvedDelivery).channel, Get(Get(f.resolvedDelivery).to),
             f.payloads)

Sent(call, channel, ok) ==
    [to |-> call.to, text |-> call.text, mediaUrl |-> call.mediaUrl,
     channel |-> channel, ok |-> ok]

\* the next send call of the delivery loop resolves
SendOk(r) ==
    /\ runs[r].pc = "sending"
    /\ LET f == runs[r]
           plan == CurrentPlan(f)
           sent == Append(f.sent, Sent(plan[f.cursor],
                                       Get(f.resolvedDelivery).channel, TRUE))
       IN  runs' = [runs EXCEPT ![r] =
              IF f.cursor < Len(plan)
              THEN [f EXCEPT !.cursor = @ + 1, !.sent = sent]
              ELSE [f EXCEPT !.pc = "done", !.sent = sent,
                             !.result = Some(Result("ok", f.summary, None))]]
    /\ UNCHANGED <<cfg, sessionStore, lanes, clock, uuid, fn>>
    /\ UNCHANGED cronVars

\* the next send call of the delivery loop rejects: the catch of its channel
SendFail(r) ==
    /\ runs[r].pc = "sending"
    /\ LET f == runs[r]
           plan == CurrentPlan(f)
           sent == Append(f.sent, Sent(plan[f.cursor],
                                       Get(f.resolvedDelivery).channel, FALSE))
       IN  runs' = [runs EXCEPT ![r] =
              [f EXCEPT !.pc = "done", !.sent = sent,
                        !.result = Some(SendFailedResult(JobOf(r), f.summary,
                                                         SendError))]]
    /\ UNCHANGED <<cfg, sessionStore, lanes, clock, uuid, fn>>
    /\ UNCHANGED cronVars

Next ==
    \E r \in RunIds :
        \/ Start(r)
        \/ SaveDone(r)
        \/ Enqueue(r)
        \/ AgentResolve(r)
        \/ AgentReject(r)
        \/ SendOk(r)
        \/ SendFail(r)

\* no cron scheduler in the specification
NoCron ==
    /\ jobs = Unused /\ inFlight = Unused
    /\ runLog = Unused /\ gateway = Unused

(***************************************************************************)
(* Inputs of the run specifications                                        *)
(***************************************************************************)
PhoneB == <<"+", "2", "7">>
PhoneAWritten == <<" ", "1", "-", "5", " ">>
PhoneOther == <<"+", "9", "9">>
\* an allowlist entry that holds no number: the empty string
Junk == << >>

AllowChoices ==
    {None, Some(<< >>), Some(<<Wildcard, PhoneB>>), Some(<<PhoneB, PhoneAWritten>>),
     Some(<<Junk>>), Some(<<Junk, PhoneB>>)}

ToChoices == {None, Some(PhoneAWritten), Some(PhoneOther)}

ChannelChoices == {None, Some("whatsapp"), Some("telegram"), Some("discord")}

JobPayload(deliver, bestEffortDeliver, channel, to) ==
    [kind |-> "agentTurn", deliver |-> deliver,
     bestEffortDeliver |-> bestEffortDeliver, channel |-> channel, to |-> to]

Jobs ==
    {JobPayload(d, b, ch, to) :
        d \in {None, Some(TRUE)}, b \in {None, Some(TRUE)},
        ch \in ChannelChoices, to \in ToChoices}

\* the main session entry as live traffic left it
MainChoices ==
    {None,
     Some(StoredEntry(0, 0, None, Some("webchat"), Some(<< >>), FALSE)),
     Some(StoredEntry(0, 0, None, Some("telegram"), Some(<<"7", "7">>), TRUE))}

\* the entry of an isolated job left by its previous run
CronEntryChoices ==
    {None, Some(StoredEntry(1, 0, Some(TRUE), None, None, FALSE))}

LaneChoices == {None, Some(TextBlank), Some(<<" ", "m">>)}

\* every lane name a run can resolve to
LaneNames ==
    {Cron} \cup {Get(l) : l \in LaneChoices \ {None}}
           \cup {Trim(Get(l)) : l \in LaneChoices \ {None}}

RunCfg(sendSystemOnce, allowFrom, command) ==
    [idleMinutes |-> Some(1), sendSystemOnce |-> sendSystemOnce,
     allowFrom |-> allowFrom, mode |-> "command", command |-> command]

(***************************************************************************)
(* Specification Spec: one run, over every job payload, allowlist, main    *)
(* session route and agent output within the bounds.                       *)
(***************************************************************************)
Init ==
    /\ \E once \in BOOLEAN, allow \in AllowChoices :
          cfg = RunCfg(once, allow, "agent")
    /\ \E main \in MainChoices, e \in CronEntryChoices \ {None} :
          sessionStore = [k \in SessionKeys |->
                            IF k = MainKey THEN main
                            ELSE IF k = CronKey(1) THEN e ELSE None]
    /\ lanes = [l \in LaneNames |-> EmptyLane]
    /\ \E job \in Jobs :
          runs = [r \in RunIds |->
                    IF r = 1 THEN CallFrame(job, CronKey(1), Some(Cron))
                    ELSE NoFrame]
    /\ clock = 0
    /\ uuid = 0
    /\ fn = Unused
    /\ NoCron

Spec == Init /\ [][Next]_vars

(***************************************************************************)
(* Specification SpecLanes: NumRuns runs of different jobs started         *)
(* concurrently, each in a lane of its own choice, with the system text    *)
(* sent once per session (sendSystemOnce).                                 *)
(***************************************************************************)
LaneJobs ==
    {JobPayload(Some(TRUE), None, Some("telegram"), Some(<<"7", "7">>))}


InitLanes ==
    /\ cfg = RunCfg(TRUE, None, "echo")
    /\ \E e \in CronEntryChoices :
          sessionStore = [k \in SessionKeys |->
                            IF k = CronKey(1) THEN e ELSE None]
    /\ lanes = [l \in LaneNames |-> EmptyLane]
    /\ \E js \in [RunIds -> LaneJobs], ls \in [RunIds -> LaneChoices] :
          runs = [r \in RunIds |-> CallFrame(js[r], CronKey(r), ls[r])]
    /\ clock = 0
    /\ uuid = 0
    /\ fn = Unused
    /\ NoCron

SpecLanes == InitLanes /\ [][Next]_vars

(***************************************************************************)
(* Specification SpecSummary: pickSummaryFromOutput applied to one text    *)
(* drawn from texts around the limit, padded with white space.             *)
(***************************************************************************)
MaxPad == 2
MaxShort == 3
LimitSpread == 2

Pads == UNION {[1..n -> WhiteSpace \ {"\t"}] : n \in 0..MaxPad}
BodyLens == (0..MaxShort) \cup ((limit - LimitSpread)..(limit + LimitSpread))
SummaryTexts ==
    {l \o Rep("a", n) \o r : l \in Pads, r \in Pads, n \in BodyLens}

InitSummary ==
    /\ NoCron
    /\ cfg = Unused /\ sessionStore = Unused /\ lanes = Unused
    /\ runs = Unused /\ clock = 0 /\ uuid = 0
    /\ \E t \in {None} \cup {Some(x) : x \in SummaryTexts} :
          fn = [pc |-> "call", text |-> t, out |-> None]

SummaryCall ==
    /\ fn.pc = "call"
    /\ fn' = [fn EXCEPT !.pc = "ret", !.out = PickSummaryFromOutput(fn.text)]
    /\ UNCHANGED <<cfg, sessionStore, lanes, runs, clock, uuid>>
    /\ UNCHANGED cronVars

NextSummary == SummaryCall

SpecSummary == InitSummary /\ [][NextSummary]_vars

(***************************************************************************)
(* Specification SpecSession: resolveCronSession applied to a store entry  *)
(* last updated at EntryUpdatedAt, at instants around the idle window.     *)
(***************************************************************************)
MaxIdleMinutes == 3
EntryUpdatedAt == 1000

IdleChoices == {None} \cup {Some(m) : m \in 0..MaxIdleMinutes}

SessionCfg(idle) ==
    [idleMinutes |-> idle, sendSystemOnce |-> FALSE, allowFrom |-> None]

SessionDeltas(c) ==
    {-1, 0, IdleMs(c) - 1, IdleMs(c), IdleMs(c) + 1, 2 * IdleMs(c)}

InitSession ==
    /\ NoCron
    /\ lanes = Unused /\ runs = Unused /\ uuid = 0
    /\ \E idle \in IdleChoices : cfg = SessionCfg(idle)
    /\ \E e \in {None} \cup
              {Some(StoredEntry(1, EntryUpdatedAt, sent, None, None, tuned)) :
                  sent \in {None, Some(TRUE), Some(FALSE)},
                  tuned \in BOOLEAN} :
          sessionStore = [k \in {"cron:job-1"} |-> e]
    /\ \E d \in SessionDeltas(cfg) : clock = EntryUpdatedAt + d
    /\ fn = [pc |-> "call", sessionKey |-> "cron:job-1", out |-> None]

SessionCall ==
    /\ fn.pc = "call"
    /\ LET res == ResolveCronSession(cfg, sessionStore, fn.sessionKey, clock,
                                      RandomUUID(uuid + 1))
       IN  /\ fn' = [fn EXCEPT !.pc = "ret", !.out = Some(res)]
           /\ uuid' = IF res.isNewSession THEN uuid + 1 ELSE uuid
    /\ UNCHANGED <<cfg, sessionStore, lanes, runs, clock>>
    /\ UNCHANGED cronVars

NextSession == SessionCall

SpecSession == InitSession /\ [][NextSession]_vars

(***************************************************************************)
(* Claims                                                                  *)
(***************************************************************************)
Done(r) == runs[r].pc = "done"
ResultOf(r) == Get(runs[r].result)
TargetOf(r) == Get(runs[r].resolvedDelivery)
Resolved(r) == IsSome(runs[r].resolvedDelivery)
DeliverRequested(r) == IsSome(runs[r].job) /\ JobOf(r).deliver = Some(TRUE)
BestEffort(r) == IsSome(runs[r].job) /\ JobOf(r).bestEffortDeliver = Some(TRUE)
NoRecipient(r) == Resolved(r) /\ TargetOf(r).to = None
LastSendFailed(r) ==
    runs[r].sent /= << >> /\ ~runs[r].sent[Len(runs[r].sent)].ok

\* C2: an agent turn that completed, with delivery requested on WhatsApp,
\* bestEffortDeliver not true and no recipient resolved, returns status error
\* with the error that WhatsApp delivery requires a recipient, keeps the
\* agent's summary, and no send call is made.
C2_NoRecipientStrictIsError ==
    \A r \in RunIds :
        (DeliverRequested(r) /\ ~BestEffort(r) /\ NoRecipient(r)
         /\ TargetOf(r).channel = "whatsapp")
        => /\ runs[r].sent = << >>
           /\ runs[r].pc /= "sending"
           /\ (Done(r) /\ runs[r].agent = "resolved")
              => /\ ResultOf(r).status = "error"
                 /\ ResultOf(r).error =
                      Some(Lit("Cron delivery to WhatsApp requires a recipient."))
                 /\ ResultOf(r).summary = RunSummary(runs[r].payloads)

C2_Witness ==
    \E r \in RunIds :
        /\ Done(r) /\ runs[r].agent = "resolved"
        /\ DeliverRequested(r) /\ ~BestEffort(r) /\ NoRecipient(r)
        /\ TargetOf(r).channel = "whatsapp"
        /\ ResultOf(r).summary = Some(TextFirst)
        /\ ResultOf(r).status = "error"

\* C3: an agent turn that completed, with delivery requested, bestEffortDeliver
\* true and no recipient resolved for the resolved channel (WhatsApp, Telegram
\* or Discord), returns status skipped with a summary saying that delivery was
\* skipped, and no send call is made on any channel.
C3_NoRecipientBestEffortIsSkipped ==
    \A r \in RunIds :
        (DeliverRequested(r) /\ BestEffort(r) /\ NoRecipient(r)
         /\ TargetOf(r).channel \in {"whatsapp", "telegram", "discord"})
        => /\ runs[r].sent = << >>
           /\ runs[r].pc /= "sending"
           /\ (Done(r) /\ runs[r].agent = "resolved")
              => /\ ResultOf(r).status = "skipped"
                 /\ ResultOf(r).error = None
                 /\ ResultOf(r).summary =
                      Some(Lit(IF TargetOf(r).channel = "whatsapp"
                               THEN "Delivery skipped (no WhatsApp recipient)."
                               ELSE IF TargetOf(r).channel = "telegram"
                               THEN "Delivery skipped (no Telegram chatId)."
                               ELSE "Delivery skipped (no Discord destination)."))

C3_Witness ==
    \E r \in RunIds :
        /\ Done(r) /\ runs[r].agent = "resolved"
        /\ DeliverRequested(r) /\ BestEffort(r) /\ NoRecipient(r)
        /\ TargetOf(r).channel = "discord"
        /\ runs[r].payloads /= << >>
        /\ ResultOf(r).status = "skipped"

\* C4: when a send call fails during delivery, on any channel: with
\* bestEffortDeliver not true the run returns status error with the send error
\* and the agent's summary; with bestEffortDeliver true it returns status ok
\* with the agent's summary.
C4_SendFailureByBestEffort ==
    \A r \in RunIds :
        (Done(r) /\ LastSendFailed(r))
        => /\ ResultOf(r).summary = RunSummary(runs[r].payloads)
           /\ IF BestEffort(r)
              THEN ResultOf(r).status = "ok" /\ ResultOf(r).error = None
              ELSE ResultOf(r).status = "error"
                   /\ ResultOf(r).error = Some(SendError)

C4_Witness ==
    \E r \in RunIds :
        /\ Done(r) /\ LastSendFailed(r) /\ ~BestEffort(r)
        /\ Len(runs[r].sent) > 1
        /\ TargetOf(r).channel = "discord"
        /\ ResultOf(r).status = "error"
        /\ ResultOf(r).summary = Some(<<"l", "a", "s", "t">>)

\* C5: when the agent invocation rejects (failure or timeout), the run returns
\* status error with the error populated and no send call is made on any
\* channel, whatever deliver and bestEffortDeliver are.
C5_AgentFailureIsError ==
    \A r \in RunIds :
        runs[r].agent = "rejected"
        => /\ Done(r)
           /\ ResultOf(r).status = "error"
           /\ ResultOf(r).error \in {Some(Lit("Error: command failed")),
                                      Some(Lit("Error: command timed out"))}
           /\ runs[r].sent = << >>

C5_Witness ==
    \E r \in RunIds :
        /\ runs[r].agent = "rejected" /\ Done(r)
        /\ DeliverRequested(r) /\ BestEffort(r) /\ ~NoRecipient(r)
        /\ ResultOf(r).error = Some(Lit("Error: command timed out"))
\* the configured allowlist (cfg.inbound.allowFrom, absent read as empty)
RawAllow == IF IsSome(cfg.allowFrom) THEN Get(cfg.allowFrom) ELSE << >>
NormalizedAllow == {NormalizeE164(RawAllow[k]) : k \in 1..Len(RawAllow)}
ValidAllow == {n \in NormalizedAllow : Len(n) > 1}
FirstValidAllow ==
    LET k == CHOOSE i \in 1..Len(RawAllow) :
                 /\ Len(NormalizeE164(RawAllow[i])) > 1
                 /\ \A j \in 1..(i - 1) : Len(NormalizeE164(RawAllow[j])) <= 1
    IN  NormalizeE164(RawAllow[k])
\* the candidate recipient: the explicit to, else the main session's last to
Candidate(r) == ResolveTo(JobOf(r), sessionStore[MainKey])
OnWhatsApp(r) == Resolved(r) /\ TargetOf(r).channel = "whatsapp"

\* C6 as stated: for delivery on WhatsApp with a configured allowlist that is
\* not empty and has no wildcard, every send call of the run goes to a member
\* of the normalized allowlist.
C6_Original ==
    \A r \in RunIds :
        (OnWhatsApp(r) /\ RawAllow /= << >> /\ ~Includes(RawAllow, Wildcard))
        => \A i \in 1..Len(runs[r].sent) :
              runs[r].sent[i].to \in NormalizedAllow

\* C6 amended: for delivery on WhatsApp with an allowlist that has no wildcard
\* and at least one entry that normalizes to a number (more than the bare "+"),
\* every send call of the run goes to such an entry: the normalized candidate
\* recipient when it is listed, otherwise the first such entry.
C6_SendsOnlyToAllowlisted ==
    \A r \in RunIds :
        (OnWhatsApp(r) /\ ValidAllow /= {} /\ ~Includes(RawAllow, Wildcard))
        => \A i \in 1..Len(runs[r].sent) :
              /\ runs[r].sent[i].channel = "whatsapp"
              /\ runs[r].sent[i].to \in ValidAllow
              /\ runs[r].sent[i].to =
                    IF IsSome(Candidate(r))
                       /\ NormalizeE164(Get(Candidate(r))) \in ValidAllow
                    THEN NormalizeE164(Get(Candidate(r)))
                    ELSE FirstValidAllow

C6_Witness ==
    \E r \in RunIds :
        /\ OnWhatsApp(r) /\ ~Includes(RawAllow, Wildcard)
        /\ RawAllow = <<Junk, PhoneB>>
        /\ Candidate(r) = Some(PhoneOther)
        /\ Len(runs[r].sent) > 1
        /\ runs[r].sent[1].to = PhoneB

\* C7: resolveCronSession treats the stored entry as fresh iff
\* nowMs - entry.updatedAt <= idleMinutes * 60000, boundary included, where
\* idleMinutes is the configured window (the default when unset, at least 1):
\* a fresh entry's sessionId and systemSent are reused; a missing or older
\* entry gets a newly minted session id, systemSent false, isNewSession true.
C7_IdleMinutes ==
    IF cfg.idleMinutes = None THEN DEFAULT_IDLE_MINUTES
    ELSE IF Get(cfg.idleMinutes) < 1 THEN 1 ELSE Get(cfg.idleMinutes)

C7_FreshIffWithinIdleWindow ==
    fn.pc = "ret"
    => LET entry == sessionStore[fn.sessionKey]
           out == Get(fn.out)
           within == /\ entry /= None
                     /\ clock - Get(entry).updatedAt <= C7_IdleMinutes * 60000
       IN  IF within
           THEN /\ out.sessionEntry.sessionId = Get(entry).sessionId
                /\ out.systemSent = (Get(entry).systemSent = Some(TRUE))
                /\ out.sessionEntry.systemSent = Some(out.systemSent)
                /\ out.isNewSession = FALSE
           ELSE /\ out.sessionEntry.sessionId = <<"uuid", uuid>>
                /\ entry /= None
                   => out.sessionEntry.sessionId /= Get(entry).sessionId
                /\ out.systemSent = FALSE
                /\ out.sessionEntry.systemSent = Some(FALSE)
                /\ out.isNewSession = TRUE

C7_Witness ==
    /\ fn.pc = "ret"
    /\ cfg.idleMinutes = Some(2)
    /\ sessionStore[fn.sessionKey] /= None
    /\ clock - Get(sessionStore[fn.sessionKey]).updatedAt = 2 * 60000
    /\ Get(sessionStore[fn.sessionKey]).systemSent = Some(TRUE)
    /\ Get(fn.out).sessionEntry.sessionId = <<"stored", 1>>
    /\ Get(fn.out).systemSent = TRUE

\* the payloads whose trimmed text is not empty
TextIndexes(payloads) ==
    {i \in 1..Len(payloads) :
        payloads[i].text /= None /\ Trim(Get(payloads[i].text)) /= << >>}
MaxOf(S) == CHOOSE x \in S : \A y \in S : y <= x

\* C9: the run summary is the trimmed text of the last payload whose trimmed
\* text is not empty (a text within the 2000 characters of the limit is the
\* summary as it is); when no payload has such a text the summary is absent,
\* and the run ends in error only if its delivery failed.
C9_SummaryIsLastNonBlankText ==
    \A r \in RunIds :
        runs[r].agent = "resolved"
        => LET payloads == runs[r].payloads
               idx == TextIndexes(payloads)
           IN  /\ IF idx = {}
                  THEN /\ runs[r].summary = None
                       /\ (Done(r) /\ ResultOf(r).status = "error")
                          => (NoRecipient(r) \/ LastSendFailed(r))
                  ELSE LET text == Trim(Get(payloads[MaxOf(idx)].text))
                       IN  Len(text) <= 2000 => runs[r].summary = Some(text)
               /\ (Done(r) /\ ResultOf(r).status /= "skipped")
                  => ResultOf(r).summary = runs[r].summary

C9_Witness ==
    \E r \in RunIds :
        /\ Done(r) /\ runs[r].agent = "resolved"
        /\ Len(runs[r].payloads) = 3
        /\ runs[r].payloads[1].text = Some(<<"f", "i", "r", "s", "t">>)
        /\ runs[r].payloads[2].text = Some(<<" ">>)
        /\ runs[r].payloads[3].text = Some(<<" ", "l", "a", "s", "t", " ">>)
        /\ ResultOf(r).status = "ok"
        /\ ResultOf(r).summary = Some(<<"l", "a", "s", "t">>)

\* C10: a summary text whose trimmed form is longer than 2000 characters is
\* cut to its first 2000 characters followed by the ellipsis; a trimmed text
\* of 2000 characters or fewer is returned as it is, with no ellipsis.
C10_SummaryCutAtLimit ==
    (fn.pc = "ret" /\ fn.text /= None /\ Trim(Get(fn.text)) /= << >>)
    => LET text == Trim(Get(fn.text))
       IN  IF Len(text) > 2000
           THEN /\ fn.out = Some(SubSeq(text, 1, 2000) \o <<Ellipsis>>)
                /\ Len(Get(fn.out)) = 2001
           ELSE fn.out = Some(text)

C10_Witness ==
    /\ fn.pc = "ret" /\ fn.text /= None
    /\ Len(Get(fn.text)) = 2003
    /\ Len(Trim(Get(fn.text))) = 2001
    /\ Len(Get(fn.out)) = 2001
    /\ Get(fn.out)[2000] = "a"
    /\ Get(fn.out)[2001] = Ellipsis
LaneGiven(r) == runs[r].lane
\* no lane given, or a blank one: the default lane "cron"
LaneDefaulted(r) == LaneGiven(r) = None \/ Trim(Get(LaneGiven(r))) = << >>
\* the two runs were given the same lane
SameLaneGiven(r1, r2) ==
    \/ LaneDefaulted(r1) /\ LaneDefaulted(r2)
    \/ /\ ~LaneDefaulted(r1) /\ ~LaneDefaulted(r2)
       /\ Trim(Get(LaneGiven(r1))) = Trim(Get(LaneGiven(r2)))
Executing(r) == runs[r].pc = "running"

\* C1: in every lane at most one task is executing at any time; the agent
\* invocations of two runs given the same lane (the default lane "cron" when
\* no lane is given or it is blank) are never executing together.
C1_OneTaskPerLane ==
    /\ \A l \in DOMAIN lanes :
          /\ lanes[l].active <= 1
          /\ Cardinality({r \in RunIds :
                            Executing(r) /\ runs[r].laneName = Some(l)})
               = lanes[l].active
    /\ \A r1, r2 \in RunIds :
          (r1 /= r2 /\ runs[r1].pc /= "off" /\ runs[r2].pc /= "off"
           /\ SameLaneGiven(r1, r2))
          => ~(Executing(r1) /\ Executing(r2))

\* a run waits in the default lane while a run given a blank lane executes,
\* and a run of another lane executes at the same time
C1_Witness ==
    \E r1, r2 \in RunIds :
        /\ LaneGiven(r1) = None /\ LaneGiven(r2) = Some(<<" ">>)
        /\ Executing(r2) /\ runs[r1].pc = "queued"
        /\ lanes[Cron] = [queue |-> <<r1>>, active |-> 1]
\* the agent invocation of the run has started (and maybe ended)
AgentStarted(r) == Executing(r) \/ runs[r].agent /= "none"
FirstTurn(r) == IsSome(runs[r].session) /\ Get(runs[r].session).isFirstTurnInSession
StoredSystemSent(r) ==
    /\ sessionStore[runs[r].sessionKey] /= None
    /\ Get(sessionStore[runs[r].sessionKey]).systemSent = Some(TRUE)

\* C8: with the send-system-once policy enabled and the turn the first of its
\* session, in every state from the start of the agent run onward (a failure
\* of the agent included) the stored entry of the run's session key has
\* systemSent = true.  Violated: a run that loaded the store earlier saves it
\* whole afterwards, without this run's entry.
C8_SystemSentStoredFromAgentStart ==
    \A r \in RunIds :
        (cfg.sendSystemOnce = TRUE /\ FirstTurn(r) /\ AgentStarted(r))
        => StoredSystemSent(r)

(***************************************************************************)
(* Specification SpecTarget: resolveDeliveryTarget applied to one job       *)
(* payload, over every requested channel, explicit recipient, allowlist    *)
(* and last route of the main session within the input sets.               *)
(***************************************************************************)
TargetChannelChoices == ChannelChoices \cup {Some("last")}

TargetToChoices == ToChoices \cup {Some(TextBlank), Some(<< >>)}

TargetMainChoices ==
    MainChoices \cup
    {Some(StoredEntry(0, 0, None, Some("discord"), Some(<<" ", "8", " ">>), FALSE)),
     Some(StoredEntry(0, 0, None, None, Some(<<"6">>), FALSE)),
     Some(StoredEntry(0, 0, None, Some("webchat"), Some(<<"\t">>), FALSE)),
     Some(StoredEntry(0, 0, None, Some("whatsapp"), None, FALSE))}

InitTarget ==
    /\ NoCron
    /\ \E allow \in AllowChoices : cfg = RunCfg(FALSE, allow, "echo")
    /\ \E main \in TargetMainChoices :
          sessionStore = [k \in SessionKeys |->
                            IF k = MainKey THEN main ELSE None]
    /\ lanes = Unused /\ runs = Unused /\ clock = 0 /\ uuid = 0
    /\ \E ch \in TargetChannelChoices, to \in TargetToChoices :
          fn = [pc |-> "call", jobPayload |-> JobPayload(None, None, ch, to),
                to |-> None, out |-> None]

\* one call of resolveDeliveryTarget; the frame keeps the local "to" (the
\* candidate recipient) next to the value returned
TargetCall ==
    /\ fn.pc = "call"
    /\ fn' = [fn EXCEPT
                !.pc = "ret",
                !.to = ResolveTo(fn.jobPayload, sessionStore[MainKey]),
                !.out = Some(ResolveDeliveryTarget(cfg, sessionStore,
                                                   fn.jobPayload))]
    /\ UNCHANGED <<cfg, sessionStore, lanes, runs, clock, uuid>>
    /\ UNCHANGED cronVars

NextTarget == TargetCall

SpecTarget == InitTarget /\ [][NextTarget]_vars

\* the inputs of the call, read from the state
TargetMain == sessionStore[MainKey]
TargetReturned == fn.pc = "ret"
Blank(s) == \A i \in 1..Len(s) : s[i] \in WhiteSpace
\* the text without the white space at its two ends
Stripped(s) ==
    LET inner == {i \in 1..Len(s) : s[i] \notin WhiteSpace}
    IN  IF inner = {} THEN << >>
        ELSE SubSeq(s, CHOOSE i \in inner : \A j \in inner : i <= j,
                       CHOOSE i \in inner : \A j \in inner : i >= j)
ExplicitGiven == fn.jobPayload.to /= None /\ ~Blank(Get(fn.jobPayload.to))
LastToGiven ==
    /\ TargetMain /= None /\ Get(TargetMain).lastTo /= None
    /\ ~Blank(Get(Get(TargetMain).lastTo))

\* C11: the candidate recipient is the job's explicit to, trimmed, when it is
\* not blank; otherwise the trimmed lastTo of the main session's last route;
\* it is absent when that is blank or missing.  Off WhatsApp the candidate is
\* the recipient returned.
C11_CandidateRecipient ==
    TargetReturned
    => /\ fn.to = IF ExplicitGiven THEN Some(Stripped(Get(fn.jobPayload.to)))
                  ELSE IF LastToGiven
                       THEN Some(Stripped(Get(Get(TargetMain).lastTo)))
                       ELSE None
       /\ Get(fn.out).channel /= "whatsapp" => Get(fn.out).to = fn.to

\* a blank explicit to falls back to the padded lastTo, which is trimmed
C11_Witness ==
    /\ TargetReturned
    /\ fn.jobPayload.to = Some(<<" ">>)
    /\ TargetMain /= None
    /\ Get(TargetMain).lastTo = Some(<<" ", "8", " ">>)
    /\ Get(fn.out).channel = "discord"
    /\ Get(fn.out).to = Some(<<"8">>)

\* C12: the channel is the requested channel when that is whatsapp, telegram
\* or discord; otherwise ("last" or unset) it is the last route's channel,
\* unless that is absent or the web chat surface, and then it is whatsapp.
C12_DeliveryChannel ==
    TargetReturned
    => LET requested == fn.jobPayload.channel
           last == IF TargetMain = None THEN None
                   ELSE Get(TargetMain).lastChannel
       IN  Get(fn.out).channel =
              IF requested \in {Some("whatsapp"), Some("telegram"),
                                Some("discord")}
              THEN Get(requested)
              ELSE IF last = None \/ last = Some("webchat") THEN "whatsapp"
                   ELSE Get(last)

\* channel "last" with the last route on the web chat surface gives whatsapp
C12_Witness ==
    /\ TargetReturned
    /\ fn.jobPayload.channel = Some("last")
    /\ TargetMain /= None /\ Get(TargetMain).lastChannel = Some("webchat")
    /\ Get(fn.out).channel = "whatsapp"

\* C13: on WhatsApp, when the allowlist contains the wildcard "*" or is empty
\* (or not configured), the recipient returned is the candidate recipient
\* unchanged, and absent when there is no candidate.
C13_WildcardOrEmptyPassesThrough ==
    (/\ TargetReturned /\ Get(fn.out).channel = "whatsapp"
     /\ (RawAllow = << >> \/ \E i \in 1..Len(RawAllow) : RawAllow[i] = <<"*">>))
    => Get(fn.out).to = fn.to

\* a wildcard allowlist that also lists a number leaves an unlisted,
\* unnormalized candidate as it is
C13_Witness ==
    /\ TargetReturned /\ Get(fn.out).channel = "whatsapp"
    /\ cfg.allowFrom = Some(<<Wildcard, PhoneB>>)
    /\ fn.jobPayload.to = Some(PhoneAWritten)
    /\ Get(fn.out).to = Some(<<"1", "-", "5">>)

\* C14: when the agent turn completes and delivery is not requested (deliver
\* is not true), the run returns ok and makes no send call, whatever channel,
\* to and allowlist are configured.
C14_NoDeliveryNoSend ==
    \A r \in RunIds :
        (runs[r].pc /= "off" /\ JobOf(r).deliver /= Some(TRUE))
        => /\ runs[r].sent = << >>
           /\ (Done(r) /\ runs[r].agent = "resolved")
              => ResultOf(r).status = "ok"

\* a finished run with a recipient, an allowlist and payloads to send, but no
\* request to deliver
C14_Witness ==
    \E r \in RunIds :
        /\ Done(r) /\ runs[r].agent = "resolved"
        /\ JobOf(r).deliver = None
        /\ JobOf(r).channel = Some("whatsapp")
        /\ JobOf(r).to = Some(PhoneOther)
        /\ cfg.allowFrom = Some(<<PhoneB, PhoneAWritten>>)
        /\ Len(runs[r].payloads) = 3
        /\ ResultOf(r).status = "ok"
        /\ runs[r].sent = << >>

(***************************************************************************)
(* Specification SpecQueue: the command queue alone.  MaxTasks tasks are   *)
(* enqueued in lanes of their choice and settle, in every order; each task *)
(* keeps its place in the arrival order and in the start order of its      *)
(* lane, and the number of tasks that were waiting ahead of it.            *)
(***************************************************************************)
MaxTasks == 3
TaskIds == 1..MaxTasks

QueueLanes == {Cron, Trim(<<" ", "m">>)}

\* a task not handed to the queue yet
IdleTask ==
    [pc |-> "idle", laneName |-> None, enqueued |-> 0, ahead |-> 0,
     started |-> 0]

InitQueue ==
    /\ NoCron
    /\ cfg = Unused /\ sessionStore = Unused /\ clock = 0 /\ uuid = 0
    /\ fn = Unused
    /\ lanes = [l \in LaneNames |-> EmptyLane]
    /\ runs = [t \in TaskIds |-> IdleTask]

\* the tasks handed to the lane, and those of them that have started
EnqueuedIn(l) == {t \in TaskIds : runs[t].laneName = Some(l)}
StartedIn(l) == {t \in EnqueuedIn(l) : runs[t].pc \in {"running", "done"}}

\* the tasks the drain of lane l started begin to execute, in that order
Begin(table, l, started) ==
    [t \in TaskIds |->
        IF Includes(started, t)
        THEN [table[t] EXCEPT
                !.pc = "running",
                !.started = Cardinality(StartedIn(l))
                            + (CHOOSE i \in 1..Len(started) : started[i] = t)]
        ELSE table[t]]

\* enqueueCommandInLane(lane, task)
QueueEnqueue(t, l) ==
    /\ runs[t].pc = "idle"
    /\ LET q == EnqueueCommandInLane(lanes[l], t)
           queued == [runs EXCEPT
                        ![t] = [pc |-> "queued", laneName |-> Some(l),
                                enqueued |-> Cardinality(EnqueuedIn(l)) + 1,
                                ahead |-> Len(lanes[l].queue),
                                started |-> 0]]
       IN  /\ lanes' = [lanes EXCEPT ![l] = q.lane]
           /\ runs' = Begin(queued, l, q.started)
    /\ UNCHANGED <<cfg, sessionStore, clock, uuid, fn>>
    /\ UNCHANGED cronVars

\* the executing task resolves or rejects: its slot is freed, the lane drains
QueueSettle(t) ==
    /\ runs[t].pc = "running"
    /\ LET l == Get(runs[t].laneName)
           q == TaskSettled(lanes[l])
       IN  /\ lanes' = [lanes EXCEPT ![l] = q.lane]
           /\ runs' = Begin([runs EXCEPT ![t].pc = "done"], l, q.started)
    /\ UNCHANGED <<cfg, sessionStore, clock, uuid, fn>>
    /\ UNCHANGED cronVars

NextQueue ==
    \E t \in TaskIds :
        \/ \E l \in QueueLanes : QueueEnqueue(t, l)
        \/ QueueSettle(t)

SpecQueue == InitQueue /\ [][NextQueue]_vars

HasStarted(t) == runs[t].pc \in {"running", "done"}

\* C20: the tasks enqueued in one lane start executing in the order in which
\* they were enqueued: a started task has the same place in the start order
\* of its lane as in the arrival order, and every task that arrived in the
\* lane before it has started before it.
C20_LaneIsFifo ==
    \A t \in TaskIds :
        HasStarted(t)
        => /\ runs[t].started = runs[t].enqueued
           /\ \A u \in TaskIds :
                 (runs[u].laneName = runs[t].laneName
                  /\ runs[u].pc /= "idle"
                  /\ runs[u].enqueued < runs[t].enqueued)
                 => (HasStarted(u) /\ runs[u].started < runs[t].started)

\* three tasks arrived in the default lane in the order 2, 3, 1; task 1
\* arrived while task 3 was still waiting; they have started in the order
\* 2, 3, 1
C20_Witness ==
    /\ \A t \in TaskIds : runs[t].laneName = Some(Cron)
    /\ runs[2].enqueued = 1 /\ runs[3].enqueued = 2 /\ runs[1].enqueued = 3
    /\ runs[1].ahead = 1
    /\ runs[2].pc = "done" /\ runs[3].pc = "done" /\ runs[1].pc = "running"
    /\ runs[1].started = 3

(***************************************************************************)
(* Cron scheduler: schedule model and due computation, scheduler loop.     *)
(* One gateway process owns the jobs and their state; the job store        *)
(* outlives the process, the set of runs in flight does not.  Every run is *)
(* dispatched by a tick: run-now, the forced dispatch outside the          *)
(* schedule, is not part of the model.                                     *)
(***************************************************************************)
NumJobs == 2
JobIds == 1..NumJobs
MaxClock == 2
MaxCap == 2

\* schedule at(atMs)
At(atMs) ==
    [kind |-> "at", atMs |-> Some(atMs), everyMs |-> None, anchorMs |-> None]

\* schedule every(everyMs, anchorMs?)
Every(everyMs, anchorMs) ==
    [kind |-> "every", atMs |-> None, everyMs |-> Some(everyMs),
     anchorMs |-> anchorMs]

\* the smallest anchorMs + k * everyMs > fromMs for an integer k >= 0
NextAnchored(anchorMs, everyMs, fromMs) ==
    IF anchorMs > fromMs THEN anchorMs
    ELSE anchorMs + (((fromMs - anchorMs) \div everyMs) + 1) * everyMs

\* nextRun(schedule, fromMs): the next due time, None when the schedule is
\* exhausted
NextRun(schedule, fromMs) ==
    IF schedule.kind = "at"
    THEN IF Get(schedule.atMs) > fromMs THEN schedule.atMs ELSE None
    ELSE IF schedule.anchorMs = None
         THEN Some(fromMs + Get(schedule.everyMs))
         ELSE Some(NextAnchored(Get(schedule.anchorMs), Get(schedule.everyMs),
                                fromMs))

\* JobState; lastRunAtMs and lastDurationMs, which no step of the scheduler
\* reads, are left out
JobState(nextRunAtMs, runningAtMs, lastStatus, lastError) ==
    [nextRunAtMs |-> nextRunAtMs, runningAtMs |-> runningAtMs,
     lastStatus |-> lastStatus, lastError |-> lastError]

\* a job as created at createdAt: enabled, never run, first due time computed
NewJob(schedule, createdAt) ==
    [enabled |-> TRUE, schedule |-> schedule,
     state |-> JobState(NextRun(schedule, createdAt), None, None, None)]

\* RunLogEntry
RunLogEntry(jobId, action, status, error) ==
    [jobId |-> jobId, action |-> action, status |-> status, error |-> error]

StaleError == Lit("stale running marker")
RunError == Lit("Error: command failed")

\* the job is selected as due: enabled, nextRunAtMs <= now, not running
IsDue_IgnoresRunning(job, now) ==
    /\ job.enabled
    /\ job.state.nextRunAtMs /= None
    /\ Get(job.state.nextRunAtMs) <= now

IsDue_OnlyAtDueTime(job, now) ==
    /\ job.enabled
    /\ job.state.nextRunAtMs /= None
    /\ Get(job.state.nextRunAtMs) = now
    /\ job.state.runningAtMs = None

IsDue(job, now) ==
    /\ job.enabled
    /\ job.state.nextRunAtMs /= None
    /\ Get(job.state.nextRunAtMs) <= now
    /\ job.state.runningAtMs = None

\* the number of runs in flight across the whole scheduler
RECURSIVE SumInFlight(_, _)
SumInFlight(count, ids) ==
    IF ids = {} THEN 0
    ELSE LET j == CHOOSE x \in ids : TRUE
         IN  count[j] + SumInFlight(count, ids \ {j})

InFlightRuns(count) == SumInFlight(count, JobIds)

Room_Unlimited(c, count) == NumJobs

\* the runs a tick may still start under cron.maxConcurrentRuns
Room(c, count) == Max(c.maxConcurrentRuns - InFlightRuns(count), 0)

\* the due jobs, the longest due first (job id breaks ties)
RECURSIVE DueOrder(_, _)
DueOrder(table, ids) ==
    IF ids = {} THEN << >>
    ELSE LET first == CHOOSE j \in ids : \A k \in ids :
                        \/ Get(table[j].state.nextRunAtMs)
                             < Get(table[k].state.nextRunAtMs)
                        \/ /\ Get(table[j].state.nextRunAtMs)
                                = Get(table[k].state.nextRunAtMs)
                           /\ j <= k
         IN  <<first>> \o DueOrder(table, ids \ {first})

\* the jobs one tick dispatches: the first due jobs, as many as there is room
Selected(c, table, count, now) ==
    LET due == DueOrder(table, {j \in JobIds : IsDue(table[j], now)})
    IN  SubSeq(due, 1, IF Len(due) < Room(c, count) THEN Len(due)
                       ELSE Room(c, count))

\* a runningAtMs with no run in flight in this process is stale
Stale(table, count) ==
    {j \in JobIds : table[j].state.runningAtMs /= None /\ count[j] = 0}

\* a sequence listing the members of a set of job ids, in ascending order
RECURSIVE Ascending(_)
Ascending(ids) ==
    IF ids = {} THEN << >>
    ELSE LET least == CHOOSE j \in ids : \A k \in ids : j <= k
         IN  <<least>> \o Ascending(ids \ {least})

Recover_ClearOnly(table, count, now) ==
    [j \in JobIds |->
        IF j \in Stale(table, count)
        THEN [table[j] EXCEPT !.state.runningAtMs = None]
        ELSE table[j]]

\* recovery of stale running markers: cleared, and the job waits for its next
\* natural due time
Recover(table, count, now) ==
    [j \in JobIds |->
        IF j \in Stale(table, count)
        THEN [table[j] EXCEPT
                !.state.runningAtMs = None,
                !.state.nextRunAtMs = NextRun(table[j].schedule, now)]
        ELSE table[j]]

\* the run log entries of a recovery
RecoverLog(table, count) ==
    LET stale == Ascending(Stale(table, count))
    IN  [i \in 1..Len(stale) |->
            RunLogEntry(stale[i], "skipped", Some("error"), Some(StaleError))]

\* the job is handed to the runner: runningAtMs marks the run in flight
Dispatched(job, now) == [job EXCEPT !.state.runningAtMs = Some(now)]

Finished_FromDueTime(job, status, now) ==
    [job EXCEPT
        !.state = JobState(
            NextRun(job.schedule,
                    IF job.state.nextRunAtMs = None THEN now
                    ELSE Get(job.state.nextRunAtMs)),
            None, Some(status),
            IF status = "error" THEN Some(RunError) ELSE None)]

\* the state written after a run: status recorded, next due time recomputed
\* from the current time
Finished(job, status, now) ==
    [job EXCEPT
        !.state = JobState(
            NextRun(job.schedule, now),
            None, Some(status),
            IF status = "error" THEN Some(RunError) ELSE None)]

\* the schedules a job of the model can have: an every without anchor for
\* the jobs of odd id, a one-shot at or an anchored every for the others
ScheduleChoices(j) ==
    IF j % 2 = 1 THEN {Every(1, None)}
    ELSE {At(1), Every(2, Some(1))}

RunStatuses == {"ok", "error"}

InitScheduler ==
    /\ sessionStore = Unused /\ lanes = Unused /\ runs = Unused
    /\ uuid = 0 /\ fn = Unused
    /\ \E n \in 1..MaxCap : cfg = [enabled |-> TRUE, maxConcurrentRuns |-> n]
    /\ clock = 0
    /\ \E s \in [JobIds -> UNION {ScheduleChoices(j) : j \in JobIds}] :
          /\ \A j \in JobIds : s[j] \in ScheduleChoices(j)
          /\ jobs = [j \in JobIds |-> NewJob(s[j], 0)]
    /\ inFlight = [j \in JobIds |-> 0]
    /\ runLog = << >>
    /\ gateway = "up"

\* one tick of the scheduler loop: recover stale markers, select the due jobs,
\* keep to the cap, dispatch
Tick ==
    /\ gateway = "up"
    /\ LET recovered == Recover(jobs, inFlight, clock)
           selected == Selected(cfg, recovered, inFlight, clock)
       IN  /\ jobs' = [j \in JobIds |->
                         IF Includes(selected, j)
                         THEN Dispatched(recovered[j], clock)
                         ELSE recovered[j]]
           /\ inFlight' = [j \in JobIds |->
                             IF Includes(selected, j) THEN inFlight[j] + 1
                             ELSE inFlight[j]]
           /\ runLog' = RecoverLog(jobs, inFlight)
                        \o [i \in 1..Len(selected) |->
                              RunLogEntry(selected[i], "started", None, None)]
    /\ UNCHANGED <<cfg, sessionStore, lanes, runs, clock, uuid, fn, gateway>>

\* a run in flight completes with the status of its result
Complete(j, status) ==
    /\ gateway = "up"
    /\ inFlight[j] > 0
    /\ jobs' = [jobs EXCEPT ![j] = Finished(jobs[j], status, clock)]
    /\ inFlight' = [inFlight EXCEPT ![j] = @ - 1]
    /\ runLog' = <<RunLogEntry(j, "finished", Some(status),
                               jobs'[j].state.lastError)>>
    /\ UNCHANGED <<cfg, sessionStore, lanes, runs, clock, uuid, fn, gateway>>

\* enable / disable job
SetJobEnabled(j, enabled) ==
    /\ gateway = "up"
    /\ jobs[j].enabled /= enabled
    /\ jobs' = [jobs EXCEPT ![j].enabled = enabled]
    /\ runLog' = << >>
    /\ UNCHANGED <<cfg, sessionStore, lanes, runs, clock, uuid, fn, gateway,
                   inFlight>>

\* the process dies: the runs in flight die with it, the job store stays
Crash ==
    /\ gateway = "up"
    /\ gateway' = "down"
    /\ inFlight' = [j \in JobIds |-> 0]
    /\ runLog' = << >>
    /\ UNCHANGED <<cfg, sessionStore, lanes, runs, clock, uuid, fn, jobs>>

\* process start: the reconciliation pass over the job store
ProcessStart ==
    /\ gateway = "down"
    /\ gateway' = "up"
    /\ jobs' = Recover(jobs, inFlight, clock)
    /\ runLog' = RecoverLog(jobs, inFlight)
    /\ UNCHANGED <<cfg, sessionStore, lanes, runs, clock, uuid, fn, inFlight>>

\* time passes
Advance ==
    /\ clock < MaxClock
    /\ clock' = clock + 1
    /\ UNCHANGED <<cfg, sessionStore, lanes, runs, uuid, fn>>
    /\ UNCHANGED cronVars

NextScheduler ==
    \/ Tick
    \/ \E j \in JobIds, status \in RunStatuses : Complete(j, status)
    \/ \E j \in JobIds, enabled \in BOOLEAN : SetJobEnabled(j, enabled)
    \/ Crash
    \/ ProcessStart
    \/ Advance

SpecScheduler == InitScheduler /\ [][NextScheduler]_vars

(***************************************************************************)
(* Specification SpecSchedulerLive: one process lifetime of the scheduler  *)
(* left to itself: ticks keep occurring and every run in flight completes. *)
(***************************************************************************)
NextSchedulerLive ==
    \/ Tick
    \/ \E j \in JobIds, status \in RunStatuses : Complete(j, status)
    \/ Advance

\* fewer runs allowed at once than there are jobs, so that a job can wait
InitSchedulerLive ==
    /\ InitScheduler
    /\ cfg.maxConcurrentRuns < NumJobs

SpecSchedulerLive ==
    /\ InitSchedulerLive
    /\ [][NextSchedulerLive]_vars
    /\ WF_vars(Tick)
    /\ \A j \in JobIds : WF_vars(\E status \in RunStatuses : Complete(j, status))

\* the step dispatches job j
Dispatches(j) == inFlight'[j] > inFlight[j]
Running(j) == jobs[j].state.runningAtMs /= None
\* enabled, due and not running
DueNow(j) ==
    /\ jobs[j].enabled
    /\ jobs[j].state.nextRunAtMs /= None
    /\ Get(jobs[j].state.nextRunAtMs) <= clock
    /\ ~Running(j)
\* the runs in flight, one element per run
RunsInFlight == UNION {{<<j, k>> : k \in 1..inFlight[j]} : j \in JobIds}
CapReached == Cardinality(RunsInFlight) >= cfg.maxConcurrentRuns

\* C15: a tick dispatches a job only if, when it selects, the job is enabled,
\* its nextRunAtMs <= now and its runningAtMs is unset; no job ever has two
\* runs in flight, and no tick dispatches a disabled job.
C15_TickDispatchesOnlyDueIdleEnabled ==
    /\ [](\A j \in JobIds : inFlight[j] <= 1)
    /\ [][Tick => \A j \in JobIds : Dispatches(j) => DueNow(j)]_vars

\* with room for two runs a tick has just dispatched job 2 and left out job
\* 1, which is due and idle, and comes first among the due jobs, but is
\* disabled
C15_Witness ==
    /\ cfg.maxConcurrentRuns = 2 /\ clock = 1
    /\ runLog = <<RunLogEntry(2, "started", None, None)>>
    /\ jobs[2].state.runningAtMs = Some(1) /\ inFlight[2] = 1
    /\ ~jobs[1].enabled /\ ~Running(1) /\ inFlight[1] = 0
    /\ jobs[1].state.nextRunAtMs = Some(1)

\* C16: the number of runs in flight at once is never above
\* cron.maxConcurrentRuns.
C16_InFlightWithinCap ==
    Cardinality(RunsInFlight) <= cfg.maxConcurrentRuns

\* the cap is reached while another job is due and waits
C16_Witness ==
    /\ Cardinality(RunsInFlight) = cfg.maxConcurrentRuns
    /\ \E j \in JobIds : DueNow(j)

C18_StaleMarkerRecovered ==
    /\ [](gateway = "up" => \A j \in JobIds : Running(j) <=> inFlight[j] > 0)
    /\ [][ProcessStart =>
            \A j \in JobIds :
               Running(j) =>
                  /\ jobs'[j].state.runningAtMs = None
                  /\ \E i \in 1..Len(runLog') :
                        /\ runLog'[i].jobId = j
                        /\ runLog'[i].action = "skipped"
                  /\ \/ jobs'[j].state.nextRunAtMs = None
                     \/ Get(jobs'[j].state.nextRunAtMs) > clock
                  /\ jobs'[j].schedule.kind = "every"
                     => /\ jobs'[j].state.nextRunAtMs /= None
                        /\ Get(jobs'[j].state.nextRunAtMs)
                             <= clock + Get(jobs'[j].schedule.everyMs)]_vars

\* job 1 (every 1, due at 1) was running when the process died; the process
\* started again at 2: the marker is gone, the anomaly is logged, and the job
\* is due next at 3
C18_Witness ==
    /\ gateway = "up" /\ clock = 2
    /\ runLog = <<RunLogEntry(1, "skipped", Some("error"), Some(StaleError))>>
    /\ ~Running(1) /\ inFlight[1] = 0
    /\ jobs[1].state.nextRunAtMs = Some(3)

\* the next due time of a schedule counted from the instant now
NextDueFrom(schedule, now, next) ==
    IF schedule.kind = "at"
    THEN next = (IF Get(schedule.atMs) > now THEN schedule.atMs ELSE None)
    ELSE IF schedule.anchorMs = None
    THEN next = Some(now + Get(schedule.everyMs))
    ELSE /\ next /= None
         /\ Get(next) > now
         /\ Get(next) - Get(schedule.everyMs) <= now
         /\ Get(next) >= Get(schedule.anchorMs)
         /\ (Get(next) - Get(schedule.anchorMs)) % Get(schedule.everyMs) = 0

\* C19: after a run completes, with success or with failure, runningAtMs is
\* cleared, the job keeps its enabled flag, lastStatus (and lastError on a
\* failure) is recorded, and nextRunAtMs is computed from the completion
\* time; no tick dispatches a job whose last run failed before that time.
C19_CompletionReschedulesFromNow ==
    /\ [][\A j \in JobIds, status \in RunStatuses :
            Complete(j, status) =>
               /\ jobs'[j].state.runningAtMs = None
               /\ jobs'[j].enabled = jobs[j].enabled
               /\ jobs'[j].state.lastStatus = Some(status)
               /\ (status = "error") <=> (jobs'[j].state.lastError /= None)
               /\ NextDueFrom(jobs[j].schedule, clock,
                              jobs'[j].state.nextRunAtMs)]_vars
    /\ [][\A j \in JobIds :
            (Tick /\ Dispatches(j) /\ jobs[j].state.lastStatus = Some("error"))
            => /\ jobs[j].state.nextRunAtMs /= None
               /\ Get(jobs[j].state.nextRunAtMs) <= clock]_vars

\* job 1 (every 1) has just failed at 2: it is enabled, not running, and due
\* next at 3, one period after the completion
C19_Witness ==
    /\ clock = 2
    /\ runLog = <<RunLogEntry(1, "finished", Some("error"), Some(RunError))>>
    /\ jobs[1].enabled /\ ~Running(1)
    /\ jobs[1].state.lastStatus = Some("error")
    /\ jobs[1].state.lastError = Some(RunError)
    /\ jobs[1].state.nextRunAtMs = Some(3)

(***************************************************************************)
(* Specification SpecRoute: one run that must deliver (deliver = true,     *)
(* bestEffortDeliver false or absent) to the last route of the main        *)
(* session, which live traffic left on Telegram or on the voice surface    *)
(* (docs/surface.md names whatsapp, webchat, telegram, discord, voice).    *)
(***************************************************************************)
RouteMainChoices ==
    {Some(StoredEntry(0, 0, None, Some("telegram"), Some(<<"7", "7">>), TRUE)),
     Some(StoredEntry(0, 0, None, Some("voice"), Some(<<"7", "7">>), TRUE))}

RouteJobs ==
    {JobPayload(Some(TRUE), b, ch, None) :
        b \in {None, Some(FALSE)}, ch \in {None, Some("last")}}

InitRoute ==
    /\ cfg = RunCfg(FALSE, None, "agent")
    /\ \E main \in RouteMainChoices, e \in CronEntryChoices :
          sessionStore = [k \in SessionKeys |->
                            IF k = MainKey THEN main
                            ELSE IF k = CronKey(1) THEN e ELSE None]
    /\ lanes = [l \in LaneNames |-> EmptyLane]
    /\ \E job \in RouteJobs :
          runs = [r \in RunIds |->
                    IF r = 1 THEN CallFrame(job, CronKey(1), None)
                    ELSE NoFrame]
    /\ clock = 0
    /\ uuid = 0
    /\ fn = Unused
    /\ NoCron

SpecRoute == InitRoute /\ [][Next]_vars

\* send call s hands over payload p: its text or one of its media
Carries(s, p) ==
    \/ s.text = OrEmpty(p.text)
    \/ \E i \in 1..Len(MediaList(p)) : s.mediaUrl = Some(MediaList(p)[i])

\* every payload of the agent went to the send function of the resolved
\* channel and no send call failed
Delivered(r) ==
    /\ \A k \in 1..Len(runs[r].sent) :
          runs[r].sent[k].ok /\ runs[r].sent[k].channel = TargetOf(r).channel
    /\ \A i \in 1..Len(runs[r].payloads) :
          \E k \in 1..Len(runs[r].sent) :
              Carries(runs[r].sent[k], runs[r].payloads[i])

\* C27: a run with delivery requested and bestEffortDeliver not true that
\* returns status ok has delivered: every agent payload was passed to the send
\* function of the resolved channel and no send call failed, whatever the
\* resolved channel is (a last route outside whatsapp, telegram and discord
\* included).
C27_OkMeansDelivered ==
    \A r \in RunIds :
        (Done(r) /\ DeliverRequested(r) /\ ~BestEffort(r)
                 /\ ResultOf(r).status = "ok")
        => Delivered(r)

\* the same statement for the channels the delivery code has a branch for
C27_OkMeansDeliveredOnKnownChannel ==
    \A r \in RunIds :
        (Done(r) /\ DeliverRequested(r) /\ ~BestEffort(r)
                 /\ ResultOf(r).status = "ok"
                 /\ TargetOf(r).channel \in KnownChannels)
        => Delivered(r)

\* the runs whose agent task is executing in the lane of run r
ExecutingInLaneOf(r) ==
    {x \in RunIds : Executing(x) /\ runs[x].laneName = runs[r].laneName}

Delivering(r) == runs[r].pc = "sending"

\* C29: a run makes its send calls only after its agent task has finished and
\* released the lane (the lane's slot count covers only the tasks executing in
\* it, never a run that is delivering), and a delivery failure of a run without
\* best-effort delivery is reflected in the status the run returns.
C29_DeliveryOutsideLane ==
    \A r \in RunIds :
        /\ (Delivering(r) \/ runs[r].sent /= << >>)
           => /\ runs[r].agent = "resolved"
              /\ runs[r].pc \in {"sending", "done"}
              /\ lanes[Get(runs[r].laneName)].active
                    = Cardinality(ExecutingInLaneOf(r))
        /\ (Done(r) /\ LastSendFailed(r) /\ ~BestEffort(r))
           => ResultOf(r).status = "error"

\* run 1 is still delivering while the task of run 2 executes in the same lane
C29_Witness ==
    /\ Delivering(1) /\ Executing(2)
    /\ runs[1].laneName = runs[2].laneName

(***************************************************************************)
(* Specification SpecBody: the body of the turn (part_000 lines 162-225)   *)
(* for one call, over the send-system-once policy, the configured          *)
(* session-intro and body-prefix templates, the stored session entry and   *)
(* the time of the call.                                                   *)
(***************************************************************************)
SessionIdKey == "{{SessionId}}"

\* applyTemplate(template, {SessionId}) of auto-reply/templating.ts: every
\* {{SessionId}} placeholder of the template becomes the session id
ApplyTemplate(template, sessionId) ==
    [i \in 1..Len(template) |->
        IF template[i] = SessionIdKey THEN sessionId ELSE template[i]]

\* template ? applyTemplate(template, {SessionId}) : ""
Templated(template, sessionId) ==
    IF IsSome(template) /\ Get(template) /= << >>
    THEN ApplyTemplate(Get(template), sessionId)
    ELSE << >>

\* `[cron:${job.id}${job.name ? ` ${job.name}` : ""}] ${message}`.trim()
Base(id, name, message) ==
    Trim(<<"[cron:", id>>
         \o (IF name /= << >> THEN <<" ">> \o name ELSE << >>)
         \o <<"]", " ">> \o message)

\* lines 219-225
CommandBody(sendSystemOnce, isFirstTurnInSession, sessionIntro, bodyPrefix, base) ==
    LET commandBody ==
            IF ~sendSystemOnce \/ isFirstTurnInSession
            THEN (IF bodyPrefix /= << >> THEN bodyPrefix \o base ELSE base)
            ELSE base
    IN  IF sessionIntro /= << >> THEN sessionIntro \o <<"\n\n">> \o commandBody
        ELSE commandBody

IntroChoices == {None, Some(<< >>), Some(<<"intro ", SessionIdKey>>)}
PrefixChoices == {None, Some(<<"prefix ", SessionIdKey, " ">>)}
MessageChoices == {<<"h", "i">>, <<" ">>}

BodyCfg(sendSystemOnce, sessionIntro, bodyPrefix) ==
    [idleMinutes |-> Some(1), sendSystemOnce |-> sendSystemOnce,
     allowFrom |-> None, sessionIntro |-> sessionIntro,
     bodyPrefix |-> bodyPrefix]

InitBody ==
    /\ NoCron
    /\ lanes = Unused /\ runs = Unused /\ uuid = 0
    /\ \E once \in BOOLEAN, intro \in IntroChoices, prefix \in PrefixChoices :
          cfg = BodyCfg(once, intro, prefix)
    /\ \E e \in {None} \cup
              {Some(StoredEntry(1, EntryUpdatedAt, sent, None, None, FALSE)) :
                  sent \in {None, Some(TRUE), Some(FALSE)}} :
          sessionStore = [k \in {CronKey(1)} |-> e]
    /\ \E d \in {0, IdleMs(cfg) + 1} : clock = EntryUpdatedAt + d
    /\ \E m \in MessageChoices :
          fn = [pc |-> "call", sessionKey |-> CronKey(1), message |-> m,
                out |-> None]

\* runCronIsolatedAgentTurn up to the templating context (lines 162-235)
BodyCall ==
    /\ fn.pc = "call"
    /\ LET cronSession ==
               ResolveCronSession(cfg, sessionStore, fn.sessionKey, clock,
                                  RandomUUID(uuid + 1))
           sendSystemOnce == cfg.sendSystemOnce = TRUE
           isFirstTurnInSession ==
               cronSession.isNewSession \/ ~cronSession.systemSent
           sessionId == cronSession.sessionEntry.sessionId
           sessionIntro == Templated(cfg.sessionIntro, sessionId)
           bodyPrefix == Templated(cfg.bodyPrefix, sessionId)
           base == Base("job-1", << >>, fn.message)
       IN  /\ fn' = [fn EXCEPT
                 !.pc = "ret",
                 !.out = Some([Body |-> CommandBody(sendSystemOnce,
                                           isFirstTurnInSession, sessionIntro,
                                           bodyPrefix, base),
                               base |-> base,
                               sessionIntro |-> sessionIntro,
                               bodyPrefix |-> bodyPrefix,
                               isNewSession |-> cronSession.isNewSession,
                               systemSent |-> cronSession.systemSent,
                               isFirstTurnInSession |-> isFirstTurnInSession])]
           /\ uuid' = IF cronSession.isNewSession THEN uuid + 1 ELSE uuid
    /\ UNCHANGED <<cfg, sessionStore, lanes, runs, clock>>
    /\ UNCHANGED cronVars

NextBody == BodyCall

SpecBody == InitBody /\ [][NextBody]_vars

BodyReturned == fn.pc = "ret"
BodyOut == Get(fn.out)
\* the body with the preamble: the intro, a blank line, the prefix, the base
WithPreamble ==
    (IF BodyOut.sessionIntro /= << >>
     THEN BodyOut.sessionIntro \o <<"\n\n">> ELSE << >>)
    \o BodyOut.bodyPrefix \o BodyOut.base

\* C30: with the send-system-once policy enabled and a fresh session whose
\* systemSent is true, neither the session intro nor the body prefix is
\* prepended to the body of the turn; on the first turn of a session both are
\* prepended.
C30_SystemSentGovernsPreamble ==
    BodyReturned =>
        /\ (cfg.sendSystemOnce /\ ~BodyOut.isNewSession /\ BodyOut.systemSent)
           => BodyOut.Body = BodyOut.base
        /\ BodyOut.isFirstTurnInSession => BodyOut.Body = WithPreamble

\* what the code does keep: in that case the body prefix is left out, and on
\* a first turn both are prepended
C30_SystemSentGovernsBodyPrefix ==
    BodyReturned =>
        /\ (cfg.sendSystemOnce /\ ~BodyOut.isNewSession /\ BodyOut.systemSent)
           => BodyOut.Body =
                 (IF BodyOut.sessionIntro /= << >>
                  THEN BodyOut.sessionIntro \o <<"\n\n">> ELSE << >>)
                 \o BodyOut.base
        /\ BodyOut.isFirstTurnInSession => BodyOut.Body = WithPreamble

(***************************************************************************)
(* The Discord monitor (part_003 lines 161-450): the MessageCreate handler *)
(* of monitorDiscordProvider and deliverReplies.  Strings that the code    *)
(* builds by concatenation are sequences of their parts: "user:42" is      *)
(* <<"user:", "42">>.                                                      *)
(***************************************************************************)
UserA == "42"
UserB == "7"
ChannelG == "900"

\* an allowFrom entry is a string or a number (Array<string | number>); the
\* number n is <<"number", digits of n>>
Number(digits) == <<"number", digits>>

\* String(val)
String(val) ==
    IF Len(val) = 2 /\ val[1] = "number" THEN <<val[2]>> ELSE val

Map(f(_), seq) == [i \in 1..Len(seq) |-> f(seq[i])]

DiscordPrefixed(val) == <<"discord:">> \o val

Star == Wildcard

Permitted_Always(allowFrom, candidate) == TRUE

\* lines 237-243
Permitted(allowFrom, candidate) ==
    LET allowed == Map(String, allowFrom)
        prefixed == Map(DiscordPrefixed, allowed)
    IN  \/ Includes(allowed, <<candidate>>)
        \/ Includes(prefixed, DiscordPrefixed(<<candidate>>))
        \/ Includes(allowed, Star)

\* channelType === DM || channelType === GroupDM || (!guild && !channel)
IsDirectMessage(message) == message.channelType \in {"DM", "GroupDM"}

\* message.content?.trim() ?? media?.placeholder ?? embeds[0]?.description ?? ""
MessageText(message) ==
    IF IsSome(message.content) THEN Trim(Get(message.content))
    ELSE IF IsSome(message.media) THEN Get(message.media)
    ELSE << >>

ReplyTarget_AlwaysChannel(message) == <<"channel:", message.channelId>>

\* ctxPayload.To (lines 279-281)
ReplyTarget(message) ==
    IF IsDirectMessage(message)
    THEN <<"user:", Get(message.author).id>>
    ELSE <<"channel:", message.channelId>>

\* the calls of sendMessageDiscord that deliverReplies makes for one payload
MonitorPayloadCalls(target, payload) ==
    LET mediaList == MediaList(payload)
        text == OrEmpty(payload.text)
    IN  IF text = << >> /\ mediaList = << >> THEN << >>
        ELSE IF mediaList = << >>
        THEN [i \in 1..Len(ChunkText(text)) |->
                 SendCall(target, ChunkText(text)[i], None)]
        ELSE CaptionedCalls(target, payload)

RECURSIVE MonitorPlan(_, _)
MonitorPlan(target, replies) ==
    IF replies = << >> THEN << >>
    ELSE MonitorPayloadCalls(target, Head(replies))
         \o MonitorPlan(target, Tail(replies))

\* updateLastRoute({storePath, sessionKey, channel, to}) of config/sessions.ts,
\* up to its save: the whole store as loaded now, with the last route of the
\* entry set
UpdateLastRoute_TouchesOnly(store, sessionKey, channel, to, nowMs, newId) ==
    LET entry == store[sessionKey]
        next ==
            IF IsSome(entry)
            THEN [Get(entry) EXCEPT !.updatedAt = Max(@, nowMs)]
            ELSE [StoredEntry(0, nowMs, None, None, None, FALSE)
                     EXCEPT !.sessionId = newId]
    IN  [store EXCEPT ![sessionKey] = Some(next)]

UpdateLastRoute(store, sessionKey, channel, to, nowMs, newId) ==
    LET entry == store[sessionKey]
        next ==
            IF IsSome(entry)
            THEN [Get(entry) EXCEPT !.updatedAt = Max(@, nowMs),
                                    !.lastChannel = Some(channel),
                                    !.lastTo = Some(to)]
            ELSE [StoredEntry(0, nowMs, None, Some(channel), Some(to), FALSE)
                     EXCEPT !.sessionId = newId]
    IN  [store EXCEPT ![sessionKey] = Some(next)]

DiscordMessage(author, channelType, channelId, mentions, content, media) ==
    [author |-> author, channelType |-> channelType, channelId |-> channelId,
     mentions |-> mentions, content |-> content, media |-> media]

Author(id, bot) == [id |-> id, bot |-> bot]

NoMessage == DiscordMessage(None, "DM", ChannelG, FALSE, None, None)

\* the handler before any message arrived
IdleHandler ==
    [pc |-> "idle", message |-> NoMessage, To |-> << >>, store |-> None,
     agentCalls |-> 0, replies |-> << >>, cursor |-> 0, sent |-> << >>]

\* client.on(Events.MessageCreate, ...) up to its first await that matters:
\* the checks (lines 211-251), the text (253-259), ctxPayload (271-291) and,
\* for a direct message, the call of updateLastRoute (293-303)
MessageCreate(message) ==
    /\ fn.pc = "idle"
    /\ LET allowFrom == cfg.discord.allowFrom
           requireMention == cfg.discord.requireMention
           isDirectMessage == IsDirectMessage(message)
           end(pc) == [fn EXCEPT !.pc = pc, !.message = message]
       IN  IF ~IsSome(message.author) \/ Get(message.author).bot
           THEN fn' = end("ignored") /\ UNCHANGED uuid
           ELSE IF ~isDirectMessage /\ requireMention /\ ~message.mentions
           THEN fn' = end("skipped") /\ UNCHANGED uuid
           ELSE IF /\ isDirectMessage /\ IsSome(allowFrom)
                   /\ Len(Get(allowFrom)) > 0
                   /\ ~Permitted(Get(allowFrom), Get(message.author).id)
           THEN fn' = end("blocked") /\ UNCHANGED uuid
           ELSE IF MessageText(message) = << >>
           THEN fn' = end("empty") /\ UNCHANGED uuid
           ELSE IF isDirectMessage
           THEN /\ fn' = [fn EXCEPT
                     !.pc = "routing", !.message = message,
                     !.To = ReplyTarget(message),
                     !.store = Some(UpdateLastRoute(sessionStore, MainKey,
                                       "discord",
                                       <<"user:", Get(message.author).id>>,
                                       clock, RandomUUID(uuid + 1)))]
                /\ uuid' = IF IsSome(sessionStore[MainKey]) THEN uuid
                           ELSE uuid + 1
           ELSE /\ fn' = [fn EXCEPT !.pc = "replying", !.message = message,
                                    !.To = ReplyTarget(message)]
                /\ UNCHANGED uuid
    /\ UNCHANGED <<cfg, sessionStore, lanes, runs, clock>>
    /\ UNCHANGED cronVars

\* await updateLastRoute(...) settles: the store file holds what it saved
RouteSaved ==
    /\ fn.pc = "routing"
    /\ sessionStore' = Get(fn.store)
    /\ fn' = [fn EXCEPT !.pc = "replying", !.store = None]
    /\ UNCHANGED <<cfg, lanes, runs, clock, uuid>>
    /\ UNCHANGED cronVars

DiscordReplies ==
    {<< >>,
     <<Payload(Some(TextFirst), None, None)>>,
     <<Payload(None, None, None), Payload(Some(TextLast), None, Some(<<"u1", "u2">>))>>}

\* await getReplyFromConfig(ctxPayload, ...) resolves (lines 312-325)
GetReply ==
    /\ fn.pc = "replying"
    /\ \E replies \in DiscordReplies :
          fn' = [fn EXCEPT
                    !.agentCalls = @ + 1,
                    !.replies = replies,
                    !.cursor = 1,
                    !.pc = IF MonitorPlan(fn.To, replies) = << >>
                           THEN "done" ELSE "delivering"]
    /\ UNCHANGED <<cfg, sessionStore, lanes, runs, clock, uuid>>
    /\ UNCHANGED cronVars

\* getReplyFromConfig rejects: the catch of the handler (lines 333-335)
GetReplyFail ==
    /\ fn.pc = "replying"
    /\ fn' = [fn EXCEPT !.agentCalls = @ + 1, !.pc = "failed"]
    /\ UNCHANGED <<cfg, sessionStore, lanes, runs, clock, uuid>>
    /\ UNCHANGED cronVars

\* the next sendMessageDiscord(target, ...) of deliverReplies resolves
DiscordSendOk ==
    /\ fn.pc = "delivering"
    /\ LET plan == MonitorPlan(fn.To, fn.replies)
       IN  fn' = [fn EXCEPT
                    !.sent = Append(@, Sent(plan[fn.cursor], "discord", TRUE)),
                    !.cursor = @ + 1,
                    !.pc = IF fn.cursor < Len(plan) THEN "delivering"
                           ELSE "done"]
    /\ UNCHANGED <<cfg, sessionStore, lanes, runs, clock, uuid>>
    /\ UNCHANGED cronVars

\* it rejects: the catch of the handler ends the delivery
DiscordSendFail ==
    /\ fn.pc = "delivering"
    /\ LET plan == MonitorPlan(fn.To, fn.replies)
       IN  fn' = [fn EXCEPT
                    !.sent = Append(@, Sent(plan[fn.cursor], "discord", FALSE)),
                    !.pc = "failed"]
    /\ UNCHANGED <<cfg, sessionStore, lanes, runs, clock, uuid>>
    /\ UNCHANGED cronVars

DiscordAuthors == {None, Some(Author(UserA, FALSE)), Some(Author(UserB, FALSE)),
                   Some(Author(UserA, TRUE))}

DiscordMessages ==
    {DiscordMessage(a, t, ChannelG, m, c, media) :
        a \in DiscordAuthors, t \in {"DM", "GroupDM", "GuildText"},
        m \in BOOLEAN, c \in {None, Some(<< >>), Some(TextBlank), Some(TextLast)},
        media \in {None, Some(<<"<media:image>">>)}}

NextDiscord ==
    \/ \E message \in DiscordMessages : MessageCreate(message)
    \/ RouteSaved
    \/ GetReply
    \/ GetReplyFail
    \/ DiscordSendOk
    \/ DiscordSendFail

DiscordAllowChoices ==
    {None, Some(<< >>), Some(<<<<UserA>>>>), Some(<<Number(UserA)>>),
     Some(<<<<"discord:", UserA>>>>), Some(<<<<UserB>>, Star>>),
     Some(<<<<UserB>>>>)}

DiscordCfg(allowFrom, requireMention) ==
    [discord |-> [allowFrom |-> allowFrom, requireMention |-> requireMention]]

(***************************************************************************)
(* Specification SpecDiscord: one inbound Discord message, over every      *)
(* allowlist, author, channel type and reply within the bounds.            *)
(***************************************************************************)
InitDiscord ==
    /\ NoCron
    /\ lanes = Unused /\ runs = Unused /\ uuid = 0 /\ clock = 0
    /\ \E allow \in DiscordAllowChoices, mention \in BOOLEAN :
          cfg = DiscordCfg(allow, mention)
    /\ \E main \in MainChoices :
          sessionStore = [k \in SessionKeys |->
                            IF k = MainKey THEN main ELSE None]
    /\ fn = IdleHandler

SpecDiscord == InitDiscord /\ [][NextDiscord]_vars

Handled == fn.pc /= "idle"
Inbound == fn.message
Sender == Get(Inbound.author).id
FromUser == Handled /\ IsSome(Inbound.author) /\ ~Get(Inbound.author).bot
DirectFromUser == FromUser /\ IsDirectMessage(Inbound)
DiscordAllowFrom == cfg.discord.allowFrom

\* C22: every reply to an inbound Discord message is sent with
\* sendMessageDiscord to user:<author id> when the message is a direct message
\* and to channel:<channel id> when it is a guild message, and to no other
\* target or surface.
C22_RepliesGoBackToOrigin ==
    \A k \in 1..Len(fn.sent) :
        /\ fn.sent[k].channel = "discord"
        /\ fn.sent[k].to = IF IsDirectMessage(Inbound)
                           THEN <<"user:", Sender>>
                           ELSE <<"channel:", Inbound.channelId>>

\* the two media of a reply to a direct message went out
C22_Witness ==
    /\ fn.pc = "done" /\ Inbound.channelType = "DM"
    /\ Len(fn.sent) = 2 /\ fn.sent[2].to = <<"user:", Sender>>

\* the allowlist names the sender by the bare id
ListedBare ==
    IsSome(DiscordAllowFrom) /\ Includes(Get(DiscordAllowFrom), <<Sender>>)
\* the allowlist names the sender as discord:<id>
ListedPrefixed ==
    IsSome(DiscordAllowFrom)
    /\ Includes(Get(DiscordAllowFrom), <<"discord:", Sender>>)
\* the allowlist names the sender by the id written as a number
ListedNumber ==
    IsSome(DiscordAllowFrom)
    /\ Includes(Get(DiscordAllowFrom), Number(Sender))
HasStar == IsSome(DiscordAllowFrom) /\ Includes(Get(DiscordAllowFrom), Star)
Blocked == fn.pc = "blocked"

\* C23: a direct message from user X is permitted when discord.allowFrom
\* lists X as the bare id or as discord:X, contains "*", or is omitted.
C23_ListedSenderPermitted ==
    (DirectFromUser
        /\ (~IsSome(DiscordAllowFrom) \/ HasStar \/ ListedBare \/ ListedPrefixed))
    => ~Blocked

\* the same without the discord:X form
C23_BareIdPermitted ==
    (DirectFromUser /\ (~IsSome(DiscordAllowFrom) \/ HasStar \/ ListedBare))
    => ~Blocked

\* a direct message from a user the non-empty allowlist does not name, the
\* list holding no "*"
Unlisted ==
    /\ DirectFromUser
    /\ IsSome(DiscordAllowFrom) /\ Len(Get(DiscordAllowFrom)) > 0
    /\ ~HasStar /\ ~ListedBare /\ ~ListedPrefixed /\ ~ListedNumber

\* C24: with a non-empty discord.allowFrom without "*", a direct message from
\* a user who is not listed causes no agent invocation and no reply, and the
\* session store (the main session's last route) is never written.
C24_UnlistedSenderIgnored ==
    /\ [](Unlisted => (Blocked /\ fn.agentCalls = 0 /\ fn.sent = << >>
                               /\ fn.store = None))
    /\ [][Unlisted' => sessionStore' = sessionStore]_vars

\* an unlisted sender's direct message with text was blocked
C24_Witness ==
    /\ Unlisted /\ Blocked
    /\ MessageText(Inbound) /= << >>
    /\ DiscordAllowFrom = Some(<<<<UserB>>>>)

(***************************************************************************)
(* Specification SpecStore: one cron isolated run and one inbound Discord  *)
(* message, in the same process, on the same session store.                *)
(***************************************************************************)
InitStore ==
    /\ NoCron
    /\ cfg = RunCfg(TRUE, None, "echo") @@ DiscordCfg(None, TRUE)
    /\ \E main \in MainChoices, e \in CronEntryChoices :
          sessionStore = [k \in SessionKeys |->
                            IF k = MainKey THEN main
                            ELSE IF k = CronKey(1) THEN e ELSE None]
    /\ lanes = [l \in LaneNames |-> EmptyLane]
    /\ \E job \in LaneJobs :
          runs = [r \in RunIds |->
                    IF r = 1 THEN CallFrame(job, CronKey(1), None)
                    ELSE NoFrame]
    /\ clock = 0
    /\ uuid = 0
    /\ fn = IdleHandler

NextStore == Next \/ NextDiscord

SpecStore == InitStore /\ [][NextStore]_vars

\* the save of run r has landed
RunSaved(r) == runs[r].pc \notin {"off", "init", "saving"}
\* the handler's update of the last route has landed
RouteUpdated ==
    DirectFromUser /\ fn.pc \in {"replying", "delivering", "done", "failed"}

\* C28: once the cron run's write of its session entry and the live ingress
\* update of the main session's last route have both finished, the store
\* holds both: the entry of the run's session key with the run's session, and
\* the main entry with the route of the inbound message, under every
\* interleaving of the two writers.
C28_BothUpdatesKept ==
    (RunSaved(1) /\ RouteUpdated)
    => /\ IsSome(sessionStore[CronKey(1)])
       /\ Get(sessionStore[CronKey(1)]).sessionId
             = Get(runs[1].session).sessionId
       /\ IsSome(sessionStore[MainKey])
       /\ Get(sessionStore[MainKey]).lastChannel = Some("discord")
       /\ Get(sessionStore[MainKey]).lastTo = Some(<<"user:", Sender>>)

(***************************************************************************)
(* sendCommand (part_003 lines 6-125)                                      *)
(***************************************************************************)
UpperCase ==
    <<"A", "B", "C", "D", "E", "F", "G", "H", "I", "J", "K", "L", "M",
      "N", "O", "P", "Q", "R", "S", "T", "U", "V", "W", "X", "Y", "Z">>
LowerCase ==
    <<"a", "b", "c", "d", "e", "f", "g", "h", "i", "j", "k", "l", "m",
      "n", "o", "p", "q", "r", "s", "t", "u", "v", "w", "x", "y", "z">>

LowerChar(c) ==
    IF Includes(UpperCase, c)
    THEN LowerCase[CHOOSE i \in 1..Len(UpperCase) : UpperCase[i] = c]
    ELSE c

ToLowerCase_AsWritten(s) == s

\* String.prototype.toLowerCase()
ToLowerCase(s) == [i \in 1..Len(s) |-> LowerChar(s[i])]

Telegram == <<"t", "e", "l", "e", "g", "r", "a", "m">>
Discord == <<"d", "i", "s", "c", "o", "r", "d">>
WhatsApp == <<"w", "h", "a", "t", "s", "a", "p", "p">>

\* (opts.provider ?? "whatsapp").toLowerCase()
Provider(opts) ==
    ToLowerCase(IF IsSome(opts.provider) THEN Get(opts.provider) ELSE WhatsApp)

TransportCall(name, opts) ==
    [fn |-> name, to |-> opts.to, message |-> opts.message,
     mediaUrl |-> opts.media]

\* the transport sendCommand awaits: lines 27-31, 56-60, 85-102
Transport(opts) ==
    IF Provider(opts) = Telegram THEN "sendMessageTelegram"
    ELSE IF Provider(opts) = Discord THEN "sendMessageDiscord"
    ELSE "callGateway"

SendOpts(to, message, provider, json, dryRun, media) ==
    [to |-> to, message |-> message, provider |-> provider, json |-> json,
     dryRun |-> dryRun, media |-> media]

TelegramSpellings ==
    {Telegram, <<"T", "e", "l", "e", "g", "r", "a", "m">>,
     <<"T", "E", "L", "E", "G", "R", "A", "M">>}
DiscordSpellings ==
    {Discord, <<"D", "i", "s", "c", "o", "r", "d">>}
OtherProviders ==
    {WhatsApp, <<"w", "e", "b">>, << >>, <<" ">> \o Telegram}

ProviderChoices ==
    {None} \cup {Some(p) : p \in TelegramSpellings \cup DiscordSpellings
                                  \cup OtherProviders}

InitSend ==
    /\ NoCron
    /\ cfg = Unused /\ sessionStore = Unused /\ lanes = Unused
    /\ runs = Unused /\ clock = 0 /\ uuid = 0
    /\ \E provider \in ProviderChoices, dryRun \in {None, Some(TRUE), Some(FALSE)},
          json \in {None, Some(TRUE)}, media \in {None, Some("u1")} :
          fn = [pc |-> "call",
                opts |-> SendOpts(PhoneB, TextFirst, provider, json, dryRun,
                                  media),
                calls |-> << >>, log |-> << >>]

\* sendCommand up to its await: the dry run returns (lines 20-25), every
\* other call hands the message to one transport
SendCommand ==
    /\ fn.pc = "call"
    /\ fn' = IF fn.opts.dryRun = Some(TRUE)
             THEN [fn EXCEPT !.pc = "ret",
                             !.log = Append(@, <<"dry-run", Provider(fn.opts)>>)]
             ELSE [fn EXCEPT !.pc = "await",
                             !.calls = Append(@, TransportCall(
                                           Transport(fn.opts), fn.opts))]
    /\ UNCHANGED <<cfg, sessionStore, lanes, runs, clock, uuid>>
    /\ UNCHANGED cronVars

\* the via of the messages logged after the send
Via(opts) == IF Transport(opts) = "callGateway" THEN "gateway" ELSE "direct"

\* the transport resolves: the success line and, with json, the JSON line
SendCommandResolve ==
    /\ fn.pc = "await"
    /\ fn' = [fn EXCEPT
                !.pc = "ret",
                !.log = @ \o <<<<"sent", Via(fn.opts)>>>>
                          \o (IF fn.opts.json = Some(TRUE)
                              THEN <<<<"json", Via(fn.opts)>>>> ELSE << >>)]
    /\ UNCHANGED <<cfg, sessionStore, lanes, runs, clock, uuid>>
    /\ UNCHANGED cronVars

\* the transport rejects: sendCommand rejects with its error
SendCommandReject ==
    /\ fn.pc = "await"
    /\ fn' = [fn EXCEPT !.pc = "threw"]
    /\ UNCHANGED <<cfg, sessionStore, lanes, runs, clock, uuid>>
    /\ UNCHANGED cronVars

NextSend == SendCommand \/ SendCommandResolve \/ SendCommandReject

SpecSend == InitSend /\ [][NextSend]_vars

SendCalled == fn.pc /= "call"
GivenProvider == fn.opts.provider
OnlyCall(name) == fn.calls = <<TransportCall(name, fn.opts)>>

\* C26: sendCommand calls exactly the transport its options choose: none with
\* dryRun, only sendMessageTelegram with provider telegram in any letter case,
\* only sendMessageDiscord with provider discord, only the gateway call with
\* any other provider or none; it never calls sendMessageWhatsApp.
C26_TransportFollowsOptions ==
    SendCalled =>
        /\ \A k \in 1..Len(fn.calls) : fn.calls[k].fn /= "sendMessageWhatsApp"
        /\ IF fn.opts.dryRun = Some(TRUE) THEN fn.calls = << >>
           ELSE IF IsSome(GivenProvider)
                   /\ Get(GivenProvider) \in TelegramSpellings
           THEN OnlyCall("sendMessageTelegram")
           ELSE IF IsSome(GivenProvider)
                   /\ Get(GivenProvider) \in DiscordSpellings
           THEN OnlyCall("sendMessageDiscord")
           ELSE OnlyCall("callGateway")

\* provider TELEGRAM in capitals went out through sendMessageTelegram
C26_Witness ==
    /\ fn.pc = "ret"
    /\ GivenProvider = Some(<<"T", "E", "L", "E", "G", "R", "A", "M">>)
    /\ OnlyCall("sendMessageTelegram")

(***************************************************************************)
(* sendMessageDiscord (src/discord/send.ts)                                *)
(***************************************************************************)
UserPrefix == <<"u", "s", "e", "r", ":">>
ChannelPrefix == <<"c", "h", "a", "n", "n", "e", "l", ":">>
DiscordPrefix == <<"d", "i", "s", "c", "o", "r", "d", ":">>
AtPrefix == <<"@">>

\* String.prototype.startsWith
StartsWith(s, prefix) ==
    Len(s) >= Len(prefix) /\ SubSeq(s, 1, Len(prefix)) = prefix

\* s.slice(n)
SliceFrom(s, n) == SubSeq(s, n + 1, Len(s))

Recipient(kind, id) == [kind |-> kind, id |-> id]

ParseRecipient_BareChannel(raw) == Recipient("channel", Trim(raw))

\* parseRecipient, for a recipient that is not blank (lines 48-60)
ParseRecipient(raw) ==
    LET trimmed == Trim(raw)
    IN  IF StartsWith(trimmed, UserPrefix)
        THEN Recipient("user", SliceFrom(trimmed, Len(UserPrefix)))
        ELSE IF StartsWith(trimmed, ChannelPrefix)
        THEN Recipient("channel", SliceFrom(trimmed, Len(ChannelPrefix)))
        ELSE IF StartsWith(trimmed, DiscordPrefix)
        THEN Recipient("user", SliceFrom(trimmed, Len(DiscordPrefix)))
        ELSE IF StartsWith(trimmed, AtPrefix)
        THEN Recipient("user", SliceFrom(trimmed, 1))
        ELSE Recipient("channel", trimmed)

\* rest.post(Routes.userChannels(), {body: {recipient_id}})
PostUserChannels(id) ==
    [route |-> "userChannels", channelId |-> << >>, recipient_id |-> Some(id),
     content |-> None, file |-> None]

\* rest.post(Routes.channelMessages(channelId), {body: {content}, files})
PostChannelMessages(channelId, content, file) ==
    [route |-> "channelMessages", channelId |-> channelId,
     recipient_id |-> None, content |-> content, file |-> file]

\* sendDiscordText / sendDiscordMedia up to the post, for a text within
\* DISCORD_TEXT_LIMIT: the frame after the call
PostMessage(f, channelId) ==
    IF IsSome(f.mediaUrl)
    THEN [f EXCEPT !.pc = "posting", !.channelId = Some(channelId),
                   !.rest = Append(@, PostChannelMessages(channelId,
                                IF f.text = << >> THEN None ELSE Some(f.text),
                                f.mediaUrl))]
    ELSE IF Trim(f.text) = << >>
    THEN [f EXCEPT !.pc = "threw", !.channelId = Some(channelId),
                   !.error = Some("Message must be non-empty for Discord sends")]
    ELSE [f EXCEPT !.pc = "posting", !.channelId = Some(channelId),
                   !.rest = Append(@, PostChannelMessages(channelId,
                                                          Some(f.text), None))]

\* sendMessageDiscord up to its first post (lines 140-143, 67-72)
SendMessageDiscord ==
    /\ fn.pc = "call"
    /\ fn' = IF Trim(fn.to) = << >>
             THEN [fn EXCEPT !.pc = "threw",
                             !.error = Some("Recipient is required for Discord sends")]
             ELSE LET recipient == ParseRecipient(fn.to)
                  IN  IF recipient.kind = "channel"
                      THEN PostMessage(fn, recipient.id)
                      ELSE [fn EXCEPT !.pc = "dm",
                                      !.rest = Append(@, PostUserChannels(recipient.id))]
    /\ UNCHANGED <<cfg, sessionStore, lanes, runs, clock, uuid>>
    /\ UNCHANGED cronVars

DmChannelId == <<"c", "1">>
\* what the creation of the DM channel answers: a channel with or without id
DmChannels == {Some(DmChannelId), None}

\* the creation of the DM channel resolves (lines 70-76), then the message is
\* posted to the channel it returned
DmCreated ==
    /\ fn.pc = "dm"
    /\ \E dmChannel \in DmChannels :
          fn' = IF ~IsSome(dmChannel)
                THEN [fn EXCEPT !.pc = "threw",
                                !.error = Some("Failed to create Discord DM channel")]
                ELSE PostMessage([fn EXCEPT !.dm = dmChannel], Get(dmChannel))
    /\ UNCHANGED <<cfg, sessionStore, lanes, runs, clock, uuid>>
    /\ UNCHANGED cronVars

\* a post rejects: sendMessageDiscord rejects with its error
PostRejected ==
    /\ fn.pc \in {"dm", "posting"}
    /\ fn' = [fn EXCEPT !.pc = "threw", !.error = Some("rest.post failed")]
    /\ UNCHANGED <<cfg, sessionStore, lanes, runs, clock, uuid>>
    /\ UNCHANGED cronVars

\* the post of the message resolves: lines 154-157
PostResolved ==
    /\ fn.pc = "posting"
    /\ fn' = [fn EXCEPT !.pc = "ret"]
    /\ UNCHANGED <<cfg, sessionStore, lanes, runs, clock, uuid>>
    /\ UNCHANGED cronVars

NextRest == SendMessageDiscord \/ DmCreated \/ PostRejected \/ PostResolved

RecipientIds == {<<"1", "2">>, <<"9">>}
UserForms(id) == {UserPrefix \o id, DiscordPrefix \o id, AtPrefix \o id}
ChannelForms(id) == {ChannelPrefix \o id, id}

RecipientChoices ==
    UNION {UserForms(id) \cup ChannelForms(id) : id \in RecipientIds}
    \cup {<<" ">> \o UserPrefix \o <<"9", " ">>, << >>, TextBlank}

InitRest ==
    /\ NoCron
    /\ cfg = Unused /\ sessionStore = Unused /\ lanes = Unused
    /\ runs = Unused /\ clock = 0 /\ uuid = 0
    /\ \E to \in RecipientChoices, text \in {TextFirst, TextBlank},
          mediaUrl \in {None, Some("u1")} :
          fn = [pc |-> "call", to |-> to, text |-> text, mediaUrl |-> mediaUrl,
                rest |-> << >>, dm |-> None, channelId |-> None,
                error |-> None]

SpecRest == InitRest /\ [][NextRest]_vars

\* the posts of messages made so far
MessagePosts == {k \in 1..Len(fn.rest) : fn.rest[k].route = "channelMessages"}
DmPosts == {k \in 1..Len(fn.rest) : fn.rest[k].route = "userChannels"}

\* C25: for a user recipient (user:<id>, discord:<id> or @<id>)
\* sendMessageDiscord first creates the DM channel of that user and only then
\* posts the message, to the channel id the creation returned; for a channel
\* recipient (channel:<id> or the bare id) it posts to that channel and
\* creates no DM channel.
C25_DmChannelBeforePost ==
    \A id \in RecipientIds :
        /\ (fn.pc /= "call" /\ Trim(fn.to) \in UserForms(id))
           => /\ fn.rest /= << >>
              /\ fn.rest[1] = PostUserChannels(id)
              /\ DmPosts = {1}
              /\ \A k \in MessagePosts :
                    /\ k > 1 /\ IsSome(fn.dm)
                    /\ fn.rest[k].channelId = Get(fn.dm)
        /\ (fn.pc /= "call" /\ Trim(fn.to) \in ChannelForms(id))
           => /\ DmPosts = {}
              /\ \A k \in MessagePosts : fn.rest[k].channelId = id

\* a message to discord:12 was posted to the DM channel created for user 12
C25_Witness ==
    /\ fn.pc = "ret"
    /\ fn.to = DiscordPrefix \o <<"1", "2">>
    /\ Len(fn.rest) = 2
    /\ fn.rest[2].channelId = DmChannelId

(***************************************************************************)
(* CronJobEditor (apps/macos/Sources/Clawdis/CronSettings.swift)           *)
(***************************************************************************)
MaxSaves == 1

DigitChars == <<"0", "1", "2", "3", "4", "5", "6", "7", "8", "9">>

DigitValue(c) == (CHOOSE i \in 1..Len(DigitChars) : DigitChars[i] = c) - 1

RECURSIVE DecimalValue(_)
DecimalValue(s) ==
    IF s = << >> THEN 0
    ELSE 10 * DecimalValue(SubSeq(s, 1, Len(s) - 1)) + DigitValue(s[Len(s)])

AllDigits(s) == s /= << >> /\ \A i \in 1..Len(s) : Includes(DigitChars, s[i])

\* the unit of a duration, lower-cased, or none
DurationUnit(raw) ==
    LET low == ToLowerCase(raw)
    IN  IF Len(low) >= 2 /\ SubSeq(low, Len(low) - 1, Len(low)) = <<"m", "s">>
        THEN <<"m", "s">>
        ELSE IF low /= << >> /\ low[Len(low)] \in {"s", "m", "h", "d"}
        THEN <<low[Len(low)]>>
        ELSE << >>

\* parseDurationMs, for durations without a fraction
ParseDurationMs(input) ==
    LET raw == Trim(input)
        unit == DurationUnit(raw)
        digits == SubSeq(raw, 1, Len(raw) - Len(unit))
        factor == IF unit = <<"m", "s">> THEN 1
                  ELSE IF unit = <<"s">> THEN 1000
                  ELSE IF unit = <<"m">> THEN 60000
                  ELSE IF unit = <<"h">> THEN 3600000
                  ELSE 86400000
    IN  IF raw = << >> \/ unit = << >> \/ ~AllDigits(digits) THEN None
        ELSE IF DecimalValue(digits) <= 0 THEN None
        ELSE Some(DecimalValue(digits) * factor)

Threw(message) == [ok |-> FALSE, root |-> None, error |-> Some(message)]
Returned(root) == [ok |-> TRUE, root |-> Some(root), error |-> None]

\* the schedule of buildPayload (lines 885-910), or the error it throws
BuildSchedule(e) ==
    IF e.scheduleKind = "at"
    THEN Returned([kind |-> "at", atMs |-> Some(e.atMs), everyMs |-> None,
                   expr |-> None])
    ELSE IF e.scheduleKind = "every"
    THEN (IF IsSome(ParseDurationMs(e.everyText))
          THEN Returned([kind |-> "every", atMs |-> None,
                         everyMs |-> ParseDurationMs(e.everyText),
                         expr |-> None])
          ELSE Threw("Invalid every duration (use 10m, 1h, 1d)."))
    ELSE (IF Trim(e.cronExpr) = << >>
          THEN Threw("Cron expression is required.")
          ELSE Returned([kind |-> "cron", atMs |-> None, everyMs |-> None,
                         expr |-> Some(Trim(e.cronExpr))]))

\* buildAgentTurnPayload, with deliver off
BuildAgentTurnPayload(e) ==
    [kind |-> "agentTurn", text |-> None, message |-> Some(Trim(e.agentMessage)),
     deliver |-> Some(FALSE)]

\* the payload of buildPayload (lines 913-922)
EditorPayload_ByKind(e) ==
    IF e.payloadKind = "systemEvent"
    THEN [kind |-> "systemEvent", text |-> Some(Trim(e.systemEventText)),
          message |-> None, deliver |-> None]
    ELSE BuildAgentTurnPayload(e)

EditorPayload(e) ==
    IF e.sessionTarget = "isolated" THEN BuildAgentTurnPayload(e)
    ELSE EditorPayload_ByKind(e)

Root(e, schedule, payload) ==
    [enabled |-> TRUE, schedule |-> schedule,
     sessionTarget |-> e.sessionTarget, payload |-> payload,
     isolation |-> IF e.sessionTarget = "isolated" THEN Some("Cron") ELSE None]

\* the checks of the text and the record (lines 940-972)
BuildRoot(e, payload) ==
    IF payload.kind = "systemEvent" /\ OrEmpty(payload.text) = << >>
    THEN Threw("System event text is required.")
    ELSE IF payload.kind = "agentTurn" /\ OrEmpty(payload.message) = << >>
    THEN Threw("Agent message is required.")
    ELSE Returned(Root(e, Get(BuildSchedule(e).root), payload))

BuildPayload_Unchecked(e) ==
    IF ~BuildSchedule(e).ok THEN BuildSchedule(e)
    ELSE BuildRoot(e, EditorPayload_ByKind(e))

\* buildPayload (lines 883-974): the record, or the error thrown
BuildPayload(e) ==
    LET payload == EditorPayload(e)
    IN  IF ~BuildSchedule(e).ok THEN BuildSchedule(e)
        ELSE IF e.sessionTarget = "main" /\ payload.kind = "agentTurn"
        THEN Threw("Main session jobs require systemEvent payloads (switch Session target to isolated).")
        ELSE IF e.sessionTarget = "isolated" /\ payload.kind = "systemEvent"
        THEN Threw("Isolated jobs require agentTurn payloads.")
        ELSE BuildRoot(e, payload)

\* .onChange(of: sessionTarget) (lines 761-767); the change of payloadKind it
\* makes changes nothing more
SessionTargetChanged(e) ==
    IF e.sessionTarget = "isolated" THEN [e EXCEPT !.payloadKind = "agentTurn"]
    ELSE IF e.payloadKind = "agentTurn"
    THEN [e EXCEPT !.payloadKind = "systemEvent"]
    ELSE e

\* .onChange(of: payloadKind) (lines 756-760), then that of sessionTarget
PayloadKindChanged(e) ==
    IF e.payloadKind = "agentTurn" /\ e.sessionTarget = "main"
    THEN SessionTargetChanged([e EXCEPT !.sessionTarget = "isolated"])
    ELSE e

\* the editor as constructed (lines 515-537)
NewEditor ==
    [pc |-> "appearing", sessionTarget |-> "main", payloadKind |-> "systemEvent",
     scheduleKind |-> "every", atMs |-> 0, everyText |-> <<"1", "h">>,
     cronExpr |-> <<"0", " ", "9", " ", "*", " ", "*", " ", "3">>,
     systemEventText |-> << >>, agentMessage |-> << >>,
     error |-> None, saves |-> 0, thrown |-> 0, saved |-> << >>]

SessionTargets == {"main", "isolated"}
PayloadKinds == {"systemEvent", "agentTurn"}
EditorTexts == {<< >>, TextLast}
EveryTexts == {<<"1", "h">>, <<"0", "m">>, <<"x">>}
CronExprs == {TextBlank, <<"0", " ", "9", " ", "*", " ", "*", " ", "3">>}

\* "\(n)" of a non-negative Int
RECURSIVE ToDecimal(_)
ToDecimal(n) ==
    IF n < 10 THEN <<DigitChars[n + 1]>>
    ELSE ToDecimal(n \div 10) \o <<DigitChars[(n % 10) + 1]>>

\* Int(round(Double(ms) / Double(unit))): to the nearest, halves upwards
RoundedUnits(ms, unit) == (2 * ms + unit) \div (2 * unit)

\* formatDuration (lines 1018-1028)
FormatDuration(ms) ==
    IF ms < 1000 THEN ToDecimal(ms) \o <<"m", "s">>
    ELSE IF ms < 60000 THEN ToDecimal(RoundedUnits(ms, 1000)) \o <<"s">>
    ELSE IF ms < 3600000 THEN ToDecimal(RoundedUnits(ms, 60000)) \o <<"m">>
    ELSE IF ms < 172800000 THEN ToDecimal(RoundedUnits(ms, 3600000)) \o <<"h">>
    ELSE ToDecimal(RoundedUnits(ms, 86400000)) \o <<"d">>

\* CronSchedule.every(everyMs, anchorMs) and .at(atMs) of a stored job
EverySchedule(everyMs, anchorMs) ==
    [kind |-> "every", atMs |-> None, everyMs |-> Some(everyMs),
     anchorMs |-> anchorMs]
AtSchedule(atMs) ==
    [kind |-> "at", atMs |-> Some(atMs), everyMs |-> None, anchorMs |-> None]

EditorJob(sessionTarget, payloadKind, text, schedule) ==
    [sessionTarget |-> sessionTarget, payloadKind |-> payloadKind,
     text |-> text, schedule |-> schedule]

\* the jobs the gateway can hand to the editor
EditorJobs ==
    {EditorJob(t, k, TextFirst, EverySchedule(3600000, None)) :
        t \in SessionTargets, k \in PayloadKinds}

\* hydrateFromJob (lines 835-871)
HydrateFromJob(e, job) ==
    IF ~IsSome(job) THEN e
    ELSE [e EXCEPT
            !.sessionTarget = Get(job).sessionTarget,
            !.scheduleKind = Get(job).schedule.kind,
            !.atMs = IF Get(job).schedule.kind = "at"
                     THEN Get(Get(job).schedule.atMs) ELSE @,
            !.everyText = IF Get(job).schedule.kind = "every"
                          THEN FormatDuration(Get(Get(job).schedule.everyMs))
                          ELSE @,
            !.payloadKind = Get(job).payloadKind,
            !.systemEventText =
                IF Get(job).payloadKind = "systemEvent" THEN Get(job).text ELSE @,
            !.agentMessage =
                IF Get(job).payloadKind = "agentTurn" THEN Get(job).text ELSE @]

\* .onAppear: the editor takes the fields of the job; whether the onChange
\* handlers run for the values set while the view appears is left open
Appear(job, handlers) ==
    /\ fn.pc = "appearing"
    /\ LET e == HydrateFromJob(fn, job)
           changed == IF ~handlers THEN e
                      ELSE IF e.payloadKind /= fn.payloadKind
                      THEN SessionTargetChanged(PayloadKindChanged(e))
                      ELSE IF e.sessionTarget /= fn.sessionTarget
                      THEN SessionTargetChanged(e)
                      ELSE e
       IN  fn' = [changed EXCEPT !.pc = "open"]
    /\ UNCHANGED <<cfg, sessionStore, lanes, runs, clock, uuid>>
    /\ UNCHANGED cronVars

\* the Session target picker
PickSessionTarget(target) ==
    /\ fn.pc = "open" /\ fn.sessionTarget /= target
    /\ fn' = SessionTargetChanged([fn EXCEPT !.sessionTarget = target])
    /\ UNCHANGED <<cfg, sessionStore, lanes, runs, clock, uuid>>
    /\ UNCHANGED cronVars

\* the payload Kind picker, shown for the main session target (lines 659-685)
PickPayloadKind(kind) ==
    /\ fn.pc = "open" /\ fn.sessionTarget /= "isolated"
    /\ fn.payloadKind /= kind
    /\ fn' = PayloadKindChanged([fn EXCEPT !.payloadKind = kind])
    /\ UNCHANGED <<cfg, sessionStore, lanes, runs, clock, uuid>>
    /\ UNCHANGED cronVars

\* the text fields and the schedule pickers
EditFields ==
    /\ fn.pc = "open"
    /\ \E text \in EditorTexts, message \in EditorTexts,
          kind \in {"at", "every", "cron"}, every \in EveryTexts,
          expr \in CronExprs :
          /\ fn' = [fn EXCEPT !.systemEventText = text,
                              !.agentMessage = message,
                              !.scheduleKind = kind, !.everyText = every,
                              !.cronExpr = expr]
          /\ fn' /= fn
    /\ UNCHANGED <<cfg, sessionStore, lanes, runs, clock, uuid>>
    /\ UNCHANGED cronVars

\* save() (lines 873-881): buildPayload, then onSave unless it threw
Save ==
    /\ fn.pc = "open" /\ fn.saves < MaxSaves
    /\ LET built == BuildPayload(fn)
       IN  fn' = IF built.ok
                 THEN [fn EXCEPT !.saves = @ + 1, !.error = None,
                                 !.saved = Append(@, Get(built.root))]
                 ELSE [fn EXCEPT !.saves = @ + 1, !.thrown = @ + 1,
                                 !.error = built.error]
    /\ UNCHANGED <<cfg, sessionStore, lanes, runs, clock, uuid>>
    /\ UNCHANGED cronVars

NextEditor ==
    \/ \E job \in {None} \cup {Some(j) : j \in EditorJobs}, handlers \in BOOLEAN :
          Appear(job, handlers)
    \/ \E target \in SessionTargets : PickSessionTarget(target)
    \/ \E kind \in PayloadKinds : PickPayloadKind(kind)
    \/ EditFields
    \/ Save

InitEditor ==
    /\ NoCron
    /\ cfg = Unused /\ sessionStore = Unused /\ lanes = Unused
    /\ runs = Unused /\ clock = 0 /\ uuid = 0
    /\ fn = NewEditor

SpecEditor == InitEditor /\ [][NextEditor]_vars

\* sessionTarget = main has a systemEvent payload, isolated an agentTurn one
ValidJob(root) ==
    /\ root.sessionTarget = "main" => root.payload.kind = "systemEvent"
    /\ root.sessionTarget = "isolated" => root.payload.kind = "agentTurn"

\* C21: in every state the editor can be in, buildPayload returns a record
\* in which sessionTarget = main has a systemEvent payload and isolated an
\* agentTurn payload, or it throws; every record handed to the save handler
\* satisfies this, and a save that threw did not call the save handler.
C21_EditorBuildsValidJob ==
    /\ BuildPayload(fn).ok => ValidJob(Get(BuildPayload(fn).root))
    /\ \A k \in 1..Len(fn.saved) : ValidJob(fn.saved[k])
    /\ Len(fn.saved) + fn.thrown = fn.saves

\* with main and agentTurn in the editor, save threw and saved nothing
C21_Witness ==
    /\ fn.sessionTarget = "main" /\ fn.payloadKind = "agentTurn"
    /\ Trim(fn.agentMessage) /= << >>
    /\ fn.thrown = 1 /\ fn.saved = << >>
    /\ fn.error = Some("Main session jobs require systemEvent payloads (switch Session target to isolated).")

Min(a, b) == IF a < b THEN a ELSE b

\* the send calls follow the payloads: for each payload in turn its text with
\* its first media (if any), then its other media in their order
RECURSIVE InPayloadOrder(_, _)
InPayloadOrder(sent, payloads) ==
    IF sent = << >> THEN TRUE
    ELSE IF payloads = << >> THEN FALSE
    ELSE LET media == MediaList(Head(payloads))
             n == IF media = << >> THEN 1 ELSE Len(media)
             m == Min(n, Len(sent))
         IN  /\ sent[1].text = OrEmpty(Head(payloads).text)
             /\ sent[1].mediaUrl = (IF media = << >> THEN None ELSE Some(media[1]))
             /\ \A j \in 2..m : sent[j].mediaUrl = Some(media[j])
             /\ InPayloadOrder(SubSeq(sent, m + 1, Len(sent)), Tail(payloads))

\* C34: within one run the payloads are sent in payload order, for one
\* payload its text or first media before its other media; no send call is
\* made after the first one that failed; and with bestEffortDeliver = true a
\* run whose delivery failed part-way still returns status ok.
C34_SendsInOrderUntilFailure ==
    \A r \in RunIds :
        /\ InPayloadOrder(runs[r].sent, runs[r].payloads)
        /\ \A k \in 1..(Len(runs[r].sent) - 1) : runs[r].sent[k].ok
        /\ (Done(r) /\ LastSendFailed(r) /\ BestEffort(r))
           => ResultOf(r).status = "ok"

\* a best-effort run on WhatsApp whose third send call failed, with calls left
C34_Witness ==
    /\ Done(1) /\ BestEffort(1) /\ LastSendFailed(1)
    /\ TargetOf(1).channel = "whatsapp"
    /\ Len(runs[1].sent) = 3
    /\ Len(CurrentPlan(runs[1])) > 3
    /\ ResultOf(1).status = "ok"

\* C36: every result of runCronIsolatedAgentTurn has status ok, error or
\* skipped; it carries an error message exactly when the status is error; and
\* the status is skipped only when deliver = true, bestEffortDeliver = true
\* and no recipient was resolved, and then no send call was made.
C36_ResultShape ==
    \A r \in RunIds :
        Done(r) =>
            /\ ResultOf(r).status \in {"ok", "error", "skipped"}
            /\ IsSome(ResultOf(r).error) <=> ResultOf(r).status = "error"
            /\ ResultOf(r).status = "skipped"
               => /\ DeliverRequested(r) /\ BestEffort(r) /\ NoRecipient(r)
                  /\ runs[r].sent = << >>

\* a best-effort delivery on Telegram without recipient ended as skipped
C36_Witness ==
    /\ Done(1) /\ ResultOf(1).status = "skipped"
    /\ TargetOf(1).channel = "telegram"
    /\ runs[1].payloads /= << >>

(***************************************************************************)
(* Specification SpecConfig: one run under a configuration whose reply is  *)
(* in command mode with a command, in another mode, or without a command.  *)
(***************************************************************************)
ConfigChoices ==
    {RunCfg(FALSE, None, "agent"),
     [RunCfg(FALSE, None, "agent") EXCEPT !.mode = "text"],
     RunCfg(FALSE, None, "")}

ConfigJobs ==
    {JobPayload(d, b, Some("telegram"), Some(<<"7", "7">>)) :
        d \in {None, Some(TRUE)}, b \in {None, Some(TRUE)}}

InitConfig ==
    /\ \E c \in ConfigChoices : cfg = c
    /\ \E e \in CronEntryChoices :
          sessionStore = [k \in SessionKeys |->
                            IF k = CronKey(1) THEN e ELSE None]
    /\ lanes = [l \in LaneNames |-> EmptyLane]
    /\ \E job \in ConfigJobs :
          runs = [r \in RunIds |->
                    IF r = 1 THEN CallFrame(job, CronKey(1), None)
                    ELSE NoFrame]
    /\ clock = 0
    /\ uuid = 0
    /\ fn = Unused
    /\ NoCron

NextConfig == Next \/ \E r \in RunIds : ConfigError(r)

SpecConfig == InitConfig /\ [][NextConfig]_vars

Rejected(r) == runs[r].pc = "threw"
AgentFailed(r) == runs[r].agent = "rejected"

\* C35 as stated: the call never rejects, whatever the configuration is.
C35_NeverRejects == \A r \in RunIds : ~Rejected(r)

\* C35: with the reply configured in command mode with a command, the call
\* never rejects, and a run whose agent invocation failed, or whose send
\* failed without best-effort delivery, returns a result with status error;
\* the call rejects, before it reads the store or invokes the agent, exactly
\* when the reply is not so configured.
C35_FailuresAreResults ==
    \A r \in RunIds :
        /\ Rejected(r) => (~AssertCommandReplyConfig(cfg)
                           /\ runs[r].session = None /\ runs[r].agent = "none")
        /\ (AssertCommandReplyConfig(cfg) /\ Done(r)
              /\ (AgentFailed(r) \/ (LastSendFailed(r) /\ ~BestEffort(r))))
           => ResultOf(r).status = "error" /\ IsSome(ResultOf(r).error)
        /\ (~AssertCommandReplyConfig(cfg) /\ runs[r].pc /= "off")
           => runs[r].pc \in {"init", "threw"}

\* the agent invocation timed out and the run returned status error
C35_Witness ==
    /\ Done(1) /\ AgentFailed(1)
    /\ ResultOf(1) = AgentFailedResult(Lit("Error: command timed out"))

(***************************************************************************)
(* C37: the allowlist supplies the WhatsApp recipient when none is given.  *)
(***************************************************************************)
\* a WhatsApp delivery with neither an explicit to nor a last-route recipient,
\* under an allowlist without wildcard that has a valid entry
AllowlistFallback(r) ==
    /\ OnWhatsApp(r) /\ DeliverRequested(r)
    /\ ValidAllow /= {} /\ ~Includes(RawAllow, Wildcard)
    /\ Candidate(r) = None

\* C37: with a non-wildcard allowlist that has at least one valid entry, a
\* WhatsApp delivery that has neither an explicit to nor a last-route
\* recipient resolves to the first valid allowlisted number and every send
\* call goes to it; when the agent produced payloads the run sends, and it
\* never ends as skipped nor with the "requires a recipient" error.
C37_FallsBackToFirstAllowlisted ==
    \A r \in RunIds :
        AllowlistFallback(r) =>
            /\ TargetOf(r).to = Some(FirstValidAllow)
            /\ \A i \in 1..Len(runs[r].sent) :
                  /\ runs[r].sent[i].channel = "whatsapp"
                  /\ runs[r].sent[i].to = FirstValidAllow
            /\ Done(r) =>
                  /\ ResultOf(r).status /= "skipped"
                  /\ ResultOf(r).error /= Some(NoRecipientError("whatsapp"))
                  /\ (runs[r].agent = "resolved" /\ runs[r].payloads /= << >>)
                     => runs[r].sent /= << >>

\* the first entry of the allowlist is not a number: the second one is used
C37_Witness ==
    /\ AllowlistFallback(1) /\ Done(1)
    /\ RawAllow = <<Junk, PhoneB>>
    /\ JobOf(1).bestEffortDeliver = Some(TRUE)
    /\ ResultOf(1).status = "ok"
    /\ Len(runs[1].sent) > 1
    /\ runs[1].sent[1].to = PhoneB

(***************************************************************************)
(* Specification SpecRuns: the scheduler runs one isolated job again and   *)
(* again, each run after the previous one returned; the session store      *)
(* holds entries of the main session and of other jobs as well.            *)
(***************************************************************************)
\* the entry the job's earlier runs left: none, or one with a route and
\* per-session agent settings
JobEntryChoices ==
    {None,
     Some(StoredEntry(1, 0, Some(TRUE), Some("telegram"), Some(<<"7", "7">>), TRUE)),
     Some(StoredEntry(1, 0, None, None, None, FALSE))}

\* the caller's frame: the instant the job's previous run started
Caller(prevStartedAt) == [pc |-> "cron", prevStartedAt |-> prevStartedAt]

\* the delays after which the job comes due again, counted from the start of
\* its previous run (from the write of the stored entry, for the first run):
\* at once, or exactly the idle window later
DueDelays == {0, IdleMs(cfg)}

InitRuns ==
    /\ NoCron
    /\ \E once \in BOOLEAN : cfg = RunCfg(once, None, "echo")
    /\ \E main \in MainChoices, e \in JobEntryChoices :
          sessionStore = [k \in SessionKeys |->
                            IF k = MainKey THEN main
                            ELSE IF k = CronKey(1) THEN e
                            ELSE Some(StoredEntry(k[2], 0, None, None, None, TRUE))]
    /\ lanes = [l \in LaneNames |-> EmptyLane]
    /\ \E job \in LaneJobs :
          runs = [r \in RunIds |->
                    IF r = 1 THEN CallFrame(job, CronKey(1), None)
                    ELSE NoFrame]
    /\ \E d \in DueDelays : clock = d
    /\ uuid = 0
    /\ fn = Caller(None)

\* the previous run of the job returned and the job is due again: the
\* scheduler calls runCronIsolatedAgentTurn for it once more
RunAgain(r) ==
    /\ r > 1 /\ runs[r].pc = "off" /\ runs[r - 1].pc = "done"
    /\ \E d \in DueDelays : clock' = clock + d
    /\ runs' = [runs EXCEPT
          ![r] = CallFrame(JobOf(r - 1), runs[r - 1].sessionKey, runs[r - 1].lane)]
    /\ fn' = Caller(Some(clock))
    /\ UNCHANGED <<cfg, sessionStore, lanes, uuid>>
    /\ UNCHANGED cronVars

NextRuns == Next \/ \E r \in RunIds : RunAgain(r)

SpecRuns == InitRuns /\ [][NextRuns]_vars

\* run r loads the store and resolves its session in this step
Starts(r) == runs[r].pc = "init" /\ runs'[r].pc = "saving"
\* the store run r hands to saveSessionStore lands in this step
Saves(r) == runs[r].pc = "saving" /\ runs'[r].pc = "saved"

CarriedFields ==
    {"lastChannel", "lastTo", "thinkingLevel", "verboseLevel", "model",
     "contextTokens"}

\* C32: the store a run writes holds, under the run's session key, an entry
\* that keeps the loaded entry's lastChannel, lastTo, thinkingLevel,
\* verboseLevel, model and contextTokens (also when a new session id is
\* minted) and has updatedAt set to the run's start time; the entries of all
\* other keys are the loaded ones; the run writes the store once, and never
\* after the agent invocation.
C32_WritesEntryKeepsRest ==
    [][\A r \in RunIds :
          LET key == runs[r].sessionKey
          IN  /\ Starts(r) =>
                    LET written == Get(runs'[r].store)
                    IN  /\ IsSome(written[key])
                        /\ \A f \in CarriedFields :
                              Get(written[key])[f] = Field(sessionStore[key], f)
                        /\ Get(written[key]).updatedAt = clock'
                        /\ Get(written[key]).sessionId = Get(runs'[r].session).sessionId
                        /\ \A k \in SessionKeys \ {key} : written[k] = sessionStore[k]
              /\ Saves(r) => sessionStore' = Get(runs[r].store)
              /\ (runs[r].pc \notin {"off", "init", "saving"}
                    /\ \A x \in RunIds : ~Saves(x))
                 => sessionStore' = sessionStore]_vars

\* a run that minted a new session id, long after the entry was written, has
\* saved an entry that still carries the route and the agent settings, beside
\* the untouched entries of the main session and of another job
C32_Witness ==
    /\ Done(1) /\ Get(runs[1].session).isNewSession
    /\ runs[1].agent = "resolved"
    /\ IsSome(sessionStore[CronKey(1)])
    /\ Get(sessionStore[CronKey(1)]).sessionId = RandomUUID(1)
    /\ Get(sessionStore[CronKey(1)]).lastTo = Some(<<"7", "7">>)
    /\ Get(sessionStore[CronKey(1)]).model = Some("claude-opus-4-5")
    /\ Get(sessionStore[CronKey(1)]).updatedAt = clock
    /\ clock > IdleMs(cfg)
    /\ IsSome(sessionStore[MainKey])
    /\ IsSome(sessionStore[CronKey(2)])

\* C33: when a run of an isolated job starts at most idleMinutes * 60000 ms
\* after the job's previous run started, and nothing else wrote the job's
\* session key, it uses the sessionId of the previous run, whether that run
\* returned ok, failed in the agent invocation or failed in delivery; along a
\* sequence of such runs the sessionId never changes.
C33_RunsInWindowShareSession ==
    [][\A r \in RunIds :
          (/\ r > 1 /\ Starts(r)
           /\ IsSome(fn.prevStartedAt)
           /\ clock' - Get(fn.prevStartedAt) <= IdleMs(cfg))
          => /\ ~Get(runs'[r].session).isNewSession
             /\ Get(runs'[r].session).sessionId
                   = Get(runs[r - 1].session).sessionId]_vars

\* the first run minted a session id and failed in delivery; the next run
\* started exactly the idle window later and uses the same session id
C33_Witness ==
    /\ IsSome(runs[2].session) /\ Done(1)
    /\ Get(runs[1].session).sessionId = RandomUUID(1)
    /\ Get(runs[2].session).sessionId = RandomUUID(1)
    /\ ResultOf(1).status = "error" /\ LastSendFailed(1)
    /\ fn.prevStartedAt = Some(clock - IdleMs(cfg))

(***************************************************************************)
(* C39: an inbound Discord message that is only an attachment.             *)
(***************************************************************************)
\* the inbound message passed the author, mention and allowlist checks
Admitted == FromUser /\ fn.pc \notin {"ignored", "skipped", "blocked"}

\* the message carries an attachment and no text: discord.js gives such a
\* message the content "" (null only for a partial message)
AttachmentOnly ==
    /\ IsSome(Inbound.media)
    /\ (Inbound.content = None \/ Inbound.content = Some(<< >>))

\* C39: an inbound Discord message from a permitted sender that carries an
\* attachment and no text content is not dropped as empty: it is handled with
\* the attachment's placeholder as its text, and the reply is requested with
\* that placeholder.
C39_AttachmentOnlyIsHandled ==
    (Admitted /\ AttachmentOnly)
    => /\ fn.pc /= "empty"
       /\ MessageText(Inbound) = Get(Inbound.media)

(***************************************************************************)
(* Specification SpecDiscordDelivery: one run that delivers on Discord     *)
(* with deps.sendMessageDiscord being sendMessageDiscord of discord/send.ts *)
(* over a transport that accepts every request.                            *)
(***************************************************************************)
NonEmptyError == Lit("Error: Message must be non-empty for Discord sends")

\* sendDiscordText throws before any request for a text that trims to ""
\* (send.ts lines 84-86); a send with media posts whatever the caption
SendMessageDiscordThrows(call) ==
    ~IsSome(call.mediaUrl) /\ Trim(call.text) = << >>

\* the next call of sendMessageDiscord resolves: the transport accepted it
DiscordDeliveryResolve(r) ==
    /\ runs[r].pc = "sending"
    /\ Get(runs[r].resolvedDelivery).channel = "discord"
    /\ ~SendMessageDiscordThrows(CurrentPlan(runs[r])[runs[r].cursor])
    /\ SendOk(r)

\* the next call of sendMessageDiscord rejects: the catch of the delivery
\* loop (part_000 lines 389-393) ends the run
DiscordDeliveryReject(r) ==
    /\ runs[r].pc = "sending"
    /\ Get(runs[r].resolvedDelivery).channel = "discord"
    /\ SendMessageDiscordThrows(CurrentPlan(runs[r])[runs[r].cursor])
    /\ LET f == runs[r]
           sent == Append(f.sent, Sent(CurrentPlan(f)[f.cursor], "discord", FALSE))
       IN  runs' = [runs EXCEPT ![r] =
              [f EXCEPT !.pc = "done", !.sent = sent,
                        !.result = Some(SendFailedResult(JobOf(r), f.summary,
                                                         NonEmptyError))]]
    /\ UNCHANGED <<cfg, sessionStore, lanes, clock, uuid, fn>>
    /\ UNCHANGED cronVars

DiscordUser == <<"user:", "42">>

DiscordJobs ==
    {JobPayload(Some(TRUE), b, Some("discord"), Some(DiscordUser)) :
        b \in {None, Some(TRUE)}}

InitDiscordDelivery ==
    /\ NoCron
    /\ cfg = RunCfg(FALSE, None, "digest")
    /\ \E e \in CronEntryChoices :
          sessionStore = [k \in SessionKeys |->
                            IF k = CronKey(1) THEN e ELSE None]
    /\ lanes = [l \in LaneNames |-> EmptyLane]
    /\ \E job \in DiscordJobs :
          runs = [r \in RunIds |->
                    IF r = 1 THEN CallFrame(job, CronKey(1), None)
                    ELSE NoFrame]
    /\ clock = 0
    /\ uuid = 0
    /\ fn = Unused

NextDiscordDelivery ==
    \E r \in RunIds :
        \/ Start(r)
        \/ SaveDone(r)
        \/ Enqueue(r)
        \/ AgentResolve(r)
        \/ AgentReject(r)
        \/ DiscordDeliveryResolve(r)
        \/ DiscordDeliveryReject(r)

SpecDiscordDelivery == InitDiscordDelivery /\ [][NextDiscordDelivery]_vars

\* the payload's text went out in a send call that resolved
TextDelivered(r, payload) ==
    \E k \in 1..Len(runs[r].sent) :
        runs[r].sent[k].ok /\ runs[r].sent[k].text = Get(payload.text)

\* C40: in a cron delivery on Discord over a transport that accepts every
\* request, a payload with blank text and no media does not stop the
\* delivery: when the run is done after the agent answered, every payload
\* with a text that is not blank has been delivered and the run returned ok.
C40_BlankPayloadDoesNotStopDelivery ==
    \A r \in RunIds :
        (Done(r) /\ runs[r].agent = "resolved")
        => /\ ResultOf(r).status = "ok"
           /\ \A i \in 1..Len(runs[r].payloads) :
                 (/\ IsSome(runs[r].payloads[i].text)
                  /\ Trim(Get(runs[r].payloads[i].text)) /= << >>)
                 => TextDelivered(r, runs[r].payloads[i])

(***************************************************************************)
(* Specification SpecReopen: the editor opens a stored job and is saved    *)
(* without an edit, over every schedule within the bounds.                 *)
(***************************************************************************)
MaxHalves == 4

DurationFactors == {1, 1000, 60000, 3600000, 86400000}

\* the intervals of stored jobs: half a unit, one, one and a half, two, ...
EveryMsChoices ==
    {(k * u) \div 2 : k \in 1..MaxHalves, u \in DurationFactors} \ {0}

ReopenSchedules ==
    {EverySchedule(ms, a) : ms \in EveryMsChoices, a \in {None, Some(0)}}
    \cup {AtSchedule(0)}

ReopenJobs ==
    {EditorJob("main", "systemEvent", TextFirst, sch) : sch \in ReopenSchedules}
    \cup {EditorJob("isolated", "agentTurn", TextFirst, sch) : sch \in ReopenSchedules}

\* the job the editor was opened for
EditedJob == jobs[1]

InitReopen ==
    /\ inFlight = Unused /\ runLog = Unused /\ gateway = Unused
    /\ cfg = Unused /\ sessionStore = Unused /\ lanes = Unused
    /\ runs = Unused /\ clock = 0 /\ uuid = 0
    /\ \E job \in ReopenJobs : jobs = <<job>>
    /\ fn = NewEditor

NextReopen ==
    \/ \E handlers \in BOOLEAN : Appear(Some(EditedJob), handlers)
    \/ Save

SpecReopen == InitReopen /\ [][NextReopen]_vars

\* the anchorMs of a schedule record, absent when the record has no such key
AnchorMsOf(schedule) ==
    IF "anchorMs" \in DOMAIN schedule THEN schedule.anchorMs ELSE None

\* C38: opening a stored job in the editor and saving it without an edit hands
\* the save handler a record with the schedule of the job: the same kind and,
\* for an every schedule, the same everyMs and anchorMs, whatever everyMs is;
\* the save does not throw.
C38_ReopenKeepsSchedule ==
    (fn.pc = "open" /\ fn.saves > 0)
    => /\ fn.thrown = 0
       /\ \A i \in 1..Len(fn.saved) :
             /\ fn.saved[i].schedule.kind = EditedJob.schedule.kind
             /\ fn.saved[i].schedule.atMs = EditedJob.schedule.atMs
             /\ fn.saved[i].schedule.everyMs = EditedJob.schedule.everyMs
             /\ AnchorMsOf(fn.saved[i].schedule) = EditedJob.schedule.anchorMs

\* the half of C38 that holds: the saved interval is the job's, rounded to the
\* nearest whole number of the unit formatDuration shows it in
C38_ReopenRoundsInterval ==
    (fn.pc = "open" /\ fn.saves > 0 /\ EditedJob.schedule.kind = "every")
    => /\ Len(fn.saved) = 1
       /\ fn.saved[1].schedule.everyMs
             = ParseDurationMs(FormatDuration(Get(EditedJob.schedule.everyMs)))

(***************************************************************************)
(* Specification SpecLast: one inbound Discord message, and a cron run     *)
(* that comes due after the message was handled and delivers to the last   *)
(* route.                                                                  *)
(***************************************************************************)
LastJobs ==
    {JobPayload(Some(TRUE), b, ch, None) :
        b \in {None, Some(TRUE)}, ch \in {None, Some("last")}}

LastAllowChoices == {None, Some(<<<<UserA>>>>)}

InitLast ==
    /\ NoCron
    /\ \E allow \in LastAllowChoices, mention \in BOOLEAN :
          cfg = RunCfg(FALSE, None, "echo") @@ DiscordCfg(allow, mention)
    /\ \E main \in MainChoices :
          sessionStore = [k \in SessionKeys |->
                            IF k = MainKey THEN main ELSE None]
    /\ lanes = [l \in LaneNames |-> EmptyLane]
    /\ runs = [r \in RunIds |-> NoFrame]
    /\ clock = 0
    /\ uuid = 0
    /\ fn = IdleHandler

\* an isolated job comes due once the handler of the inbound message is past
\* its update of the last route (or has dropped the message)
CronDue(r, job) ==
    /\ r = 1 /\ runs[r].pc = "off"
    /\ fn.pc \notin {"idle", "routing"}
    /\ runs' = [runs EXCEPT ![r] = CallFrame(job, CronKey(r), None)]
    /\ UNCHANGED <<cfg, sessionStore, lanes, clock, uuid, fn>>
    /\ UNCHANGED cronVars

NextLast ==
    \/ Next
    \/ NextDiscord
    \/ \E r \in RunIds, job \in LastJobs : CronDue(r, job)

SpecLast == InitLast /\ [][NextLast]_vars

\* the main session's last route is (channel, to)
MainRouteIs(channel, to) ==
    /\ IsSome(sessionStore[MainKey])
    /\ Get(sessionStore[MainKey]).lastChannel = Some(channel)
    /\ Get(sessionStore[MainKey]).lastTo = Some(to)

\* run r delivers to the last route: channel "last" or unset, no explicit to
DeliversToLast(r) ==
    /\ Resolved(r) /\ DeliverRequested(r)
    /\ RequestedChannel(JobOf(r)) = "last"
    /\ ExplicitTo(JobOf(r)) = None

\* C31: after an allowed Discord direct message from user U has been handled,
\* the main session's last route is (discord, user:U), and it is written
\* before the agent reply is requested; a cron run that comes due later with
\* deliver = true, channel "last" or unset and no explicit to resolves to
\* discord and user:U and sends nowhere else; handling a guild message leaves
\* the main session's entry as it was.
C31_DirectMessageSetsLastRoute ==
    /\ [](/\ RouteUpdated => MainRouteIs("discord", <<"user:", Sender>>)
          /\ fn.pc = "routing" => fn.agentCalls = 0
          /\ (DirectFromUser /\ fn.agentCalls > 0) => RouteUpdated
          /\ \A r \in RunIds :
                (RouteUpdated /\ DeliversToLast(r))
                => /\ TargetOf(r).channel = "discord"
                   /\ TargetOf(r).to = Some(<<"user:", Sender>>)
                   /\ \A i \in 1..Len(runs[r].sent) :
                         /\ runs[r].sent[i].channel = "discord"
                         /\ runs[r].sent[i].to = <<"user:", Sender>>)
    /\ [][(fn'.pc /= "idle" /\ ~IsDirectMessage(fn'.message))
             => sessionStore'[MainKey] = sessionStore[MainKey]]_vars

\* the main session was last reached on Telegram; after the direct message of
\* user 42 the cron run delivered its reply on Discord to user:42
C31_Witness ==
    /\ RouteUpdated /\ Sender = UserA
    /\ MainRouteIs("discord", <<"user:", UserA>>)
    /\ Get(sessionStore[MainKey]).thinkingLevel = Some("high")
    /\ Done(1) /\ DeliversToLast(1)
    /\ ResultOf(1).status = "ok"
    /\ runs[1].sent /= << >>
    /\ runs[1].sent[1].channel = "discord"
    /\ runs[1].sent[1].to = <<"user:", UserA>>

====
